---- MODULE Spec2Model ----
(***************************************************************************)
(* A model of litera (src/litera.py): the literate-programming processor   *)
(* that parses documents into blocks (parse_files), registers fragments    *)
(* (Litera.make_blocks) and tangles file fragments (replace_calls,         *)
(* Litera.write_code).                                                     *)
(*                                                                         *)
(* Text is a sequence of characters.  The markers whose inner structure    *)
(* no regular expression of the program looks into ("@call{", "@error{",   *)
(* the fence and the directive openers) are single elements; every other   *)
(* element is one character.                                               *)
(***************************************************************************)
EXTENDS Integers, Sequences, FiniteSets, TLC

VARIABLES
    phase,            \* control location of the run being modelled
    content,          \* replace_calls: content argument; parse_files: content
    code_blocks,      \* replace_calls: code_blocks argument
    index,            \* replace_calls: index argument
    max_index,        \* replace_calls: max_index argument
    lines,            \* replace_calls: lines of the last finished pass
    updated_lines,    \* replace_calls: updated_lines of the last finished pass
    block_text,       \* replace_calls: block_text of the last finished pass
    input,            \* history: the content the first top-level call was given
    passes,           \* history: number of passes the current top-level call has run
    calls_made,       \* history: number of top-level replace_calls calls that returned
    first_result,     \* history: what the first top-level call returned
    filenames,        \* parse_files: filenames argument
    fs_dirs,          \* file system: the paths that are directories
    fs_files,         \* file system: the paths that are regular files
    fs_text,          \* file system: what reading each input file gives
    file_no,          \* parse_files: position of "for filename in filenames"
    text_lines,       \* parse_files: text.split("\n") of the current file
    line_no,          \* parse_files: position of "for line in text.split"
    container,        \* parse_files: container of the current file
    language,         \* parse_files: language
    name,             \* parse_files: name
    block_type,       \* parse_files: block_type
    heap,             \* the Block objects created so far, in creation order
    containers,       \* parse_files: containers / Litera.containers
    error,            \* the exception that ended the run, or NoError
    self_file_blocks, \* Litera.file_blocks
    self_code_blocks, \* Litera.code_blocks
    written,          \* file system: the files write_code has written
    docs_written,     \* file system: the pages write_html has written
    weaves            \* history: number of write_documentation calls made

expand_vars == << code_blocks, index, max_index, lines, updated_lines,
                  block_text, input, passes, calls_made, first_result >>

fs_vars == << filenames, fs_dirs, fs_files, fs_text >>

parse_vars == << file_no, text_lines, line_no, container, language, name,
                 block_type >>

litera_vars == << self_file_blocks, self_code_blocks, written, docs_written,
                 weaves >>

run_vars == << fs_vars, parse_vars, heap, containers, error, litera_vars >>

vars == << phase, content, expand_vars, run_vars >>

-----------------------------------------------------------------------------
(* Characters *)

Sp    == " "
Nl    == "\n"
Call  == "@call{"
Err   == "@error{"
Close == "}"

\* str.strip / str.lstrip without arguments strip whitespace
IsSpace(c) == c \in {" ", "\t", "\n"}

-----------------------------------------------------------------------------
(* String functions of the Python library, as the program uses them *)

RECURSIVE Spaces(_)
\* " " * n  (the empty string when n <= 0)
Spaces(n) == IF n <= 0 THEN << >> ELSE << Sp >> \o Spaces(n - 1)

RECURSIVE LStrip(_)
LStrip(s) == IF s # << >> /\ IsSpace(Head(s)) THEN LStrip(Tail(s)) ELSE s

RECURSIVE RStrip(_)
RStrip(s) ==
    IF s # << >> /\ IsSpace(s[Len(s)]) THEN RStrip(SubSeq(s, 1, Len(s) - 1)) ELSE s

Strip(s) == RStrip(LStrip(s))

RECURSIVE Split(_, _)
\* s.split(sep) for a one-character sep: always at least one piece
Split(s, sep) ==
    IF \E i \in 1..Len(s) : s[i] = sep
    THEN LET i == CHOOSE k \in 1..Len(s) :
                      s[k] = sep /\ \A j \in 1..(k - 1) : s[j] # sep
         IN  << SubSeq(s, 1, i - 1) >> \o Split(SubSeq(s, i + 1, Len(s)), sep)
    ELSE << s >>

RECURSIVE Join(_, _)
\* sep.join(pieces)
Join(pieces, sep) ==
    IF pieces = << >> THEN << >>
    ELSE IF Len(pieces) = 1 THEN pieces[1]
    ELSE pieces[1] \o << sep >> \o Join(Tail(pieces), sep)

StartsWithAt(s, i, needle) ==
    /\ i + Len(needle) - 1 <= Len(s)
    /\ SubSeq(s, i, i + Len(needle) - 1) = needle

RECURSIVE ReplaceFrom(_, _, _, _)
ReplaceFrom(s, i, old, new) ==
    IF i > Len(s) THEN << >>
    ELSE IF StartsWithAt(s, i, old)
         THEN new \o ReplaceFrom(s, i + Len(old), old, new)
         ELSE << s[i] >> \o ReplaceFrom(s, i + 1, old, new)

\* s.replace(old, new) for a non-empty old: every occurrence, left to right
Replace(s, old, new) == ReplaceFrom(s, 1, old, new)

RECURSIVE CloseAfter(_, _)
\* where the lazy (.*?)} started at k ends: the first "}" with no line break
\* before it, or 0
CloseAfter(s, k) ==
    IF k > Len(s) \/ s[k] = Nl THEN 0
    ELSE IF s[k] = Close THEN k
    ELSE CloseAfter(s, k + 1)

RECURSIVE FindAllFrom(_, _, _)
FindAllFrom(opener, s, i) ==
    IF i > Len(s) THEN << >>
    ELSE IF s[i] # opener THEN FindAllFrom(opener, s, i + 1)
    ELSE LET j == CloseAfter(s, i + 1)
         IN  IF j = 0 THEN FindAllFrom(opener, s, i + 1)
             ELSE << SubSeq(s, i + 1, j - 1) >> \o FindAllFrom(opener, s, j + 1)

\* re.findall(opener + "(.*?)}", s): the captured groups, in order
FindAll(opener, s) == FindAllFrom(opener, s, 1)

\* re.search("@call{.*?}", s) finds something
HasCall(s) == FindAll(Call, s) # << >>

-----------------------------------------------------------------------------
(* replace_calls *)

\* mutant: one space too many
AddIndent_OneMore(block_content, indent_level) ==
    LET ls     == Split(block_content, Nl)
        spaces == Spaces(indent_level)
    IN  Join(<< ls[1] >> \o [ i \in 1..(Len(ls) - 1) |-> spaces \o ls[i + 1] ], Nl)

AddIndent(block_content, indent_level) ==
    LET ls     == Split(block_content, Nl)
        spaces == Spaces(indent_level - 1)
    IN  Join(<< ls[1] >> \o [ i \in 1..(Len(ls) - 1) |-> spaces \o ls[i + 1] ], Nl)

\* the body of "for call in calls" for one call
ReplaceOne(updated_line, call, indent_level, blocks) ==
    LET stripped_call == Strip(call)
        marker        == << Call >> \o call \o << Close >>
    IN  IF stripped_call \in DOMAIN blocks
        THEN Replace(updated_line, marker,
                     AddIndent(blocks[stripped_call].content, indent_level + 1))
        ELSE Replace(updated_line, marker, << Err >> \o call \o << Close >>)

RECURSIVE ReplaceEach(_, _, _, _)
ReplaceEach(updated_line, calls, indent_level, blocks) ==
    IF calls = << >> THEN updated_line
    ELSE ReplaceEach(ReplaceOne(updated_line, Head(calls), indent_level, blocks),
                     Tail(calls), indent_level, blocks)

\* the body of "for line in lines"
UpdatedLine(line, blocks) ==
    LET indent_level == Len(line) - Len(LStrip(line))
    IN  ReplaceEach(line, FindAll(Call, line), indent_level, blocks)

\* updated_lines when the loop over lines ends
UpdatedLines(ls, blocks) == [ i \in 1..Len(ls) |-> UpdatedLine(ls[i], blocks) ]

\* mutant: a line break after every line, the last one too
BlockText_TrailingBreak(updated) == Join(updated, Nl) \o << Nl >>

\* block_text from updated_lines
BlockText(updated) == Join(updated, Nl)

\* one pass: block_text as computed from content
OnePass(c, blocks) == BlockText(UpdatedLines(Split(c, Nl), blocks))

\* mutant: the limit is not looked at
Recurses_NoLimit(i, m, text) == HasCall(text)

\* the condition under which replace_calls calls itself again
Recurses(i, m, text) == (m = -1 \/ i < m) /\ HasCall(text)

\* mutant: the recursive call is given the index it was given itself
NextIndex_Same(i) == i

\* the index replace_calls gives to the call of itself
NextIndex(i) == i + 1

\* replace_calls as a whole: the text it returns (defined when it returns)
RECURSIVE ReplaceCalls(_, _, _, _)
ReplaceCalls(c, blocks, i, m) ==
    LET text == OnePass(c, blocks)
    IN  IF Recurses(i, m, text) THEN ReplaceCalls(text, blocks, NextIndex(i), m)
        ELSE text

-----------------------------------------------------------------------------
(* Blocks *)

\* s.rsplit(".", 1)[0]
RSplitDot(s) ==
    IF \E i \in 1..Len(s) : s[i] = "."
    THEN LET i == CHOOSE k \in 1..Len(s) :
                      s[k] = "." /\ \A j \in (k + 1)..Len(s) : s[j] # "."
         IN  SubSeq(s, 1, i - 1)
    ELSE s

\* os.path.basename
Basename(path) ==
    IF \E i \in 1..Len(path) : path[i] = "/"
    THEN LET i == CHOOSE k \in 1..Len(path) :
                      path[k] = "/" /\ \A j \in (k + 1)..Len(path) : path[j] # "/"
         IN  SubSeq(path, i + 1, Len(path))
    ELSE path

\* the attributes FileBlock.__init__ and CodeBlock.__init__ set
FragmentBlock(type, c, container_path, lang, block_name) ==
    [ type         |-> type,
      content      |-> c,
      container    |-> RSplitDot(Basename(container_path)),
      language     |-> lang,
      location     |-> block_name,
      name         |-> RSplitDot(Basename(block_name)),
      calling      |-> << >>,
      called_by    |-> << >>,
      calling_name |-> << >> ]

-----------------------------------------------------------------------------
(* Python dicts: insertion-ordered, a key set again keeps its place *)

DictHas(d, k) == \E i \in 1..Len(d) : d[i].key = k

DictGet(d, k) == d[CHOOSE i \in 1..Len(d) : d[i].key = k].value

\* mutant: a key set again keeps its first value
DictSet_KeepFirst(d, k, v) ==
    IF DictHas(d, k) THEN d ELSE Append(d, [ key |-> k, value |-> v ])

\* d[k] = v
DictSet(d, k, v) ==
    IF DictHas(d, k)
    THEN [ i \in 1..Len(d) |->
             IF d[i].key = k THEN [ key |-> k, value |-> v ] ELSE d[i] ]
    ELSE Append(d, [ key |-> k, value |-> v ])

DictKeys(d) == [ i \in 1..Len(d) |-> d[i].key ]

DictValues(d) == [ i \in 1..Len(d) |-> d[i].value ]

RECURSIVE DictUpdate(_, _)
\* {**a, **b}
DictUpdate(a, b) ==
    IF b = << >> THEN a
    ELSE DictUpdate(DictSet(a, Head(b).key, Head(b).value), Tail(b))

-----------------------------------------------------------------------------
(* The file system, as os.path sees it *)

NoError == "none"

IsDir(path) == path \in fs_dirs

Exists(path) == path \in fs_dirs \cup fs_files

\* os.path.splitext(path)[1] is not empty: the base name has a dot with
\* something other than dots before it
HasExtension(path) ==
    LET base == Basename(path)
    IN  \E d \in 1..Len(base) :
            base[d] = "." /\ \E k \in 1..(d - 1) : base[k] # "."

-----------------------------------------------------------------------------
(* Block, Container, make_block *)

\* what Block.__init__ raises
BlockError(container_path) ==
    IF IsDir(container_path) THEN "ValueError"
    ELSE IF ~ Exists(container_path) THEN "FileNotFoundError"
    ELSE NoError

\* what FileBlock.__init__ raises, for a FileBlock and for a CodeBlock
FileBlockError(type, container_path, block_name) ==
    IF BlockError(container_path) # NoError THEN BlockError(container_path)
    ELSE IF IsDir(block_name) THEN "ValueError"
    ELSE IF type = "file" /\ ~ HasExtension(block_name) THEN "ValueError"
    ELSE NoError

DocumentationBlock(c, container_path) ==
    [ type      |-> "doc",
      content   |-> c,
      container |-> RSplitDot(Basename(container_path)) ]

\* mutant: only the last line break is removed
RStripBreaks_LastOnly(s) ==
    IF s # << >> /\ s[Len(s)] = Nl THEN SubSeq(s, 1, Len(s) - 1) ELSE s

RECURSIVE RStripBreaks(_)
\* content.rstrip("\n")
RStripBreaks(s) ==
    IF s # << >> /\ s[Len(s)] = Nl THEN RStripBreaks(SubSeq(s, 1, Len(s) - 1))
    ELSE s

\* what make_block raises
MakeBlockError(type, container_path, block_name) ==
    IF type = "doc" THEN BlockError(container_path)
    ELSE IF type \in { "file", "code" }
         THEN FileBlockError(type, container_path, block_name)
    ELSE "ValueError"

\* mutant: the content is stored as accumulated
MakeBlock_Untrimmed(type, c, container_path, lang, block_name) ==
    IF type = "doc" THEN DocumentationBlock(c, container_path)
    ELSE FragmentBlock(type, c, container_path, lang, block_name)

\* what make_block returns when it raises nothing
MakeBlock(type, c, container_path, lang, block_name) ==
    IF type = "doc" THEN DocumentationBlock(RStripBreaks(c), container_path)
    ELSE FragmentBlock(type, RStripBreaks(c), container_path, lang, block_name)

\* what Container.__init__ raises
ContainerError(path) ==
    IF IsDir(path) THEN "ValueError"
    ELSE IF ~ Exists(path) THEN "FileNotFoundError"
    ELSE NoError

\* mutant: the document is named by the base name with its extension
NewContainer_KeepsExtension(path) ==
    [ name         |-> Basename(path),
      blocks       |-> << >>,
      code_dir     |-> << >>,
      doc_dir      |-> << >>,
      title        |-> << >>,
      execute      |-> << >>,
      local_link   |-> << >>,
      web_link     |-> << >>,
      local_script |-> << >>,
      web_script   |-> << >> ]

\* the attributes Container.__init__ sets; blocks holds positions in heap
NewContainer(path) ==
    [ name         |-> RSplitDot(Basename(path)),
      blocks       |-> << >>,
      code_dir     |-> << >>,
      doc_dir      |-> << >>,
      title        |-> << >>,
      execute      |-> << >>,
      local_link   |-> << >>,
      web_link     |-> << >>,
      local_script |-> << >>,
      web_script   |-> << >> ]

\* mutant: the empty value is refused as well
SetDirError_EmptyRefused(dir) ==
    IF dir = << >> \/ dir[Len(dir)] # "/" THEN "ValueError" ELSE NoError

\* what set_code_dir and set_doc_dir raise
SetDirError(dir) ==
    IF dir # << >> /\ dir[Len(dir)] # "/" THEN "ValueError" ELSE NoError

-----------------------------------------------------------------------------
(* parse_files: the patterns *)

\* the three backquotes that open and close a fragment, as one character
Fence       == "[fence]"
TitleOpen   == "@title{"
DocDirOpen  == "@documentation_folder{"
CodeDirOpen == "@code_folder{"
ExecuteOpen == "@execute_end{"
LScriptOpen == "@local_script{"
WScriptOpen == "@web_script{"
LLinkOpen   == "@local_link{"
WLinkOpen   == "@web_link{"

\* the characters \w matches, of those the documents are written in
WordChars == { "A", "B", "a", "b", "d", "j", "k", "p", "q", "x", "y" }

IsWordChar(c) == c \in WordChars

\* [\w_.-]
IsNameChar(c) == IsWordChar(c) \/ c \in { ".", "-" }

\* length of the longest run of word characters of s that starts at i
WordRun(s, i) ==
    CHOOSE n \in 0..(Len(s) - i + 1) :
        /\ \A k \in i..(i + n - 1) : IsWordChar(s[k])
        /\ i + n <= Len(s) => ~ IsWordChar(s[i + n])

NameRun(s, i) ==
    CHOOSE n \in 0..(Len(s) - i + 1) :
        /\ \A k \in i..(i + n - 1) : IsNameChar(s[k])
        /\ i + n <= Len(s) => ~ IsNameChar(s[i + n])

NoMatch == << >>

\* re.match(pattern1, line): << group(1), group(2) >>, or NoMatch
StartMatch(line) ==
    IF line = << >> \/ line[1] # Fence THEN NoMatch
    ELSE LET k == IF Len(line) >= 2 /\ line[2] = Sp THEN 3 ELSE 2
             n == WordRun(line, k)
         IN  IF n = 0 \/ k + n > Len(line) \/ line[k + n] # Sp THEN NoMatch
             ELSE LET j == k + n + 1
                      m == NameRun(line, j)
                  IN  IF m = 0 THEN NoMatch
                      ELSE << SubSeq(line, k, k + n - 1),
                              SubSeq(line, j, j + m - 1) >>

\* re.match(pattern2, line) matches
EndMatch(line) == line # << >> /\ line[1] = Fence

\* re.search(r"\.\w+$", name) finds something
EndsWithExtension(block_name) ==
    \E i \in 1..(Len(block_name) - 1) :
        /\ block_name[i] = "."
        /\ \A j \in (i + 1)..Len(block_name) : IsWordChar(block_name[j])

BlockTypeOf(block_name) == IF EndsWithExtension(block_name) THEN "file" ELSE "code"

\* mutant: the first match
extract_first_match(opener, text) ==
    LET matches == FindAll(opener, text)
    IN  IF matches # << >> THEN matches[1] ELSE << >>

\* matches[-1] if matches else ""
extract_last_match(opener, text) ==
    LET matches == FindAll(opener, text)
    IN  IF matches # << >> THEN matches[Len(matches)] ELSE << >>

RECURSIVE Words(_)
\* s.split()
Words(s) ==
    LET t == LStrip(s)
    IN  IF t = << >> THEN << >>
        ELSE LET n == CHOOSE k \in 1..Len(t) :
                          /\ \A i \in 1..k : ~ IsSpace(t[i])
                          /\ k < Len(t) => IsSpace(t[k + 1])
             IN  << SubSeq(t, 1, n) >> \o Words(SubSeq(t, n + 1, Len(t)))

\* what processing one link raises
LinkError(link, local) ==
    LET link_parts == Words(link)
    IN  IF Len(link_parts) < 2 THEN "IndexError"
        ELSE IF local /\ ~ Exists(link_parts[2]) THEN "FileNotFoundError"
        ELSE NoError

RECURSIVE LinksError(_, _)
\* what the loop over the links raises: the first link that fails
LinksError(links, local) ==
    IF links = << >> THEN NoError
    ELSE IF LinkError(Head(links), local) # NoError
         THEN LinkError(Head(links), local)
    ELSE LinksError(Tail(links), local)

\* local_link / web_link after the loop, when no link fails
LinkList(links) ==
    [ i \in 1..Len(links) |-> << Words(links[i])[1], Words(links[i])[2] >> ]

\* what the metadata part of parse_files raises
MetadataError(text) ==
    LET doc_dir  == extract_last_match(DocDirOpen, text)
        code_dir == extract_last_match(CodeDirOpen, text)
        llinks   == FindAll(LLinkOpen, text)
        wlinks   == FindAll(WLinkOpen, text)
    IN  IF SetDirError(doc_dir) # NoError THEN SetDirError(doc_dir)
        ELSE IF SetDirError(code_dir) # NoError THEN SetDirError(code_dir)
        ELSE IF LinksError(llinks, TRUE) # NoError THEN LinksError(llinks, TRUE)
        ELSE LinksError(wlinks, FALSE)

\* the container after the metadata part, when it raises nothing
WithMetadata(c, text) ==
    [ c EXCEPT !.title        = extract_last_match(TitleOpen, text),
               !.doc_dir      = extract_last_match(DocDirOpen, text),
               !.code_dir     = extract_last_match(CodeDirOpen, text),
               !.execute      = FindAll(ExecuteOpen, text),
               !.local_script = FindAll(LScriptOpen, text),
               !.web_script   = FindAll(WScriptOpen, text),
               !.local_link   = LinkList(FindAll(LLinkOpen, text)),
               !.web_link     = LinkList(FindAll(WLinkOpen, text)) ]

-----------------------------------------------------------------------------
(* Inputs of the expansion runs *)

MaxAtoms == 3
MaxLimit == 2

\* the default of replace_calls' max_index
DefaultMaxIndex == 12
PassCap  == 4

NameA == << "A" >>
NameB == << "B" >>

Marker(nm) == << Call >> \o nm \o << Close >>

ContentAtoms ==
    { << Sp >>, << Nl >>, << "x" >>, Marker(NameA), Marker(<< Sp, "B", Sp >>),
      << Call >>, << Close >> }

RECURSIVE Concat(_)
Concat(ss) == IF ss = << >> THEN << >> ELSE Head(ss) \o Concat(Tail(ss))

AtomTexts(atoms, n) ==
    { Concat(ss) : ss \in UNION { [1..k -> atoms] : k \in 0..n } }

\* contents of the fragment A: plain text, a reference to itself, to B, and an
\* unfinished marker
BodiesA ==
    { << "x", Nl, "y" >>, Marker(NameA), Marker(NameB),
      << "x", Nl >> \o Marker(NameB), << Call >> }

\* contents of the fragment B: plain text and a reference back to A
BodiesB == { << "x", Nl, "y" >>, Marker(NameA) }

Absent == << "(absent)" >>

ExpandRegistries ==
    { [ n \in { k \in { NameA, NameB } : f[k] # Absent } |->
            FragmentBlock("code", f[n], << "d", ".", "m" >>, << "p" >>, n) ] :
      f \in { g \in [ { NameA, NameB } -> BodiesA \cup BodiesB \cup { Absent } ] :
                 /\ g[NameA] \in BodiesA \cup { Absent }
                 /\ g[NameB] \in BodiesB \cup { Absent } } }

-----------------------------------------------------------------------------
(* What the variables of one part hold while the other part runs *)

\* no files, nothing parsed, nothing written
RunIdle ==
    /\ filenames = << >>
    /\ fs_dirs = { }
    /\ fs_files = { }
    /\ fs_text = << >>
    /\ file_no = 0
    /\ text_lines = << >>
    /\ line_no = 0
    /\ container = NewContainer(<< >>)
    /\ language = << >>
    /\ name = << >>
    /\ block_type = "doc"
    /\ heap = << >>
    /\ containers = << >>
    /\ error = NoError
    /\ self_file_blocks = << >>
    /\ self_code_blocks = << >>
    /\ written = << >>
    /\ docs_written = << >>
    /\ weaves = 0

\* no call of replace_calls is being followed pass by pass
ExpandIdle ==
    /\ code_blocks = << >>
    /\ index = 0
    /\ max_index = 0
    /\ lines = << >>
    /\ updated_lines = << >>
    /\ block_text = << >>
    /\ input = << >>
    /\ passes = 0
    /\ calls_made = 0
    /\ first_result = << >>

-----------------------------------------------------------------------------
(* The expansion runs: replace_calls pass by pass *)

InitExpand ==
    /\ phase = "expand"
    /\ content \in AtomTexts(ContentAtoms, MaxAtoms)
    /\ code_blocks \in ExpandRegistries
    /\ max_index \in -1..MaxLimit
    /\ index = 0
    /\ lines = << >>
    /\ updated_lines = << >>
    /\ block_text = << >>
    /\ input = content
    /\ passes = 0
    /\ calls_made = 0
    /\ first_result = << >>
    /\ RunIdle

\* calls that leave max_index at its default
InitExpandDefault ==
    /\ phase = "expand"
    /\ content \in AtomTexts(ContentAtoms, 1)
    /\ code_blocks \in ExpandRegistries
    /\ max_index = DefaultMaxIndex
    /\ index = 0
    /\ lines = << >>
    /\ updated_lines = << >>
    /\ block_text = << >>
    /\ input = content
    /\ passes = 0
    /\ calls_made = 0
    /\ first_result = << >>
    /\ RunIdle

\* what every pass does before it decides to recurse or return
PassBody ==
    /\ phase = "expand"
    /\ lines' = Split(content, Nl)
    /\ updated_lines' = UpdatedLines(lines', code_blocks)
    /\ block_text' = BlockText(updated_lines')
    /\ passes' = passes + 1

\* a pass after which replace_calls calls itself
PassRecurse ==
    /\ PassBody
    /\ max_index = -1 => index < PassCap
    /\ Recurses(index, max_index, block_text')
    /\ content' = block_text'
    /\ index' = NextIndex(index)
    /\ UNCHANGED << phase, code_blocks, max_index, input, calls_made,
                    first_result, run_vars >>

\* a pass after which replace_calls returns block_text
PassReturn ==
    /\ PassBody
    /\ ~ Recurses(index, max_index, block_text')
    /\ first_result' = IF calls_made = 0 THEN block_text' ELSE first_result
    /\ calls_made' = calls_made + 1
    /\ phase' = "returned"
    /\ UNCHANGED << content, code_blocks, index, max_index, input, run_vars >>

\* replace_calls called on what the first call returned, with the same
\* registry and limit
ExpandAgain ==
    /\ phase = "returned"
    /\ calls_made = 1
    /\ phase' = "expand"
    /\ content' = block_text
    /\ index' = 0
    /\ passes' = 0
    /\ UNCHANGED << code_blocks, max_index, lines, updated_lines, block_text,
                    input, calls_made, first_result, run_vars >>

NextExpand == PassRecurse \/ PassReturn \/ ExpandAgain

SpecExpand == (InitExpand \/ InitExpandDefault) /\ [][NextExpand]_vars

-----------------------------------------------------------------------------
(* Inputs of the program runs *)

MaxLines      == 4
MaxDirectives == 3
MaxFragments  == 2
MaxWeaves     == 2
MaxReferenceLines == 2

PathA == << "a", ".", "m" >>
PathB == << "b", ".", "m" >>

\* a file with the base name of PathA and another extension
PathC == << "a", ".", "q" >>

\* the file a local link may point to
LinkTarget == << "a" >>

SeqsUpTo(S, n) == UNION { [1..k -> S] : k \in 0..n }

OpenLine(block_name) == << Fence, "p", Sp >> \o block_name

\* lines of a document: fragment-open lines for a file, a fragment, a name
\* that is only an extension, a name that ends in a dot, the closing fence, a
\* text line, an empty line
SegLines ==
    { OpenLine(<< "A", ".", "p" >>), OpenLine(<< "A" >>), OpenLine(<< ".", "p" >>),
      OpenLine(<< "A", "." >>), << Fence >>, << "x" >>, << >> }

Directive(opener, value) == << opener >> \o value \o << Close >>

Directives ==
    { Directive(TitleOpen, << "x" >>),
      Directive(CodeDirOpen, << "d", "/" >>), Directive(CodeDirOpen, << "d" >>),
      Directive(CodeDirOpen, << >>),
      Directive(DocDirOpen, << "d", "/" >>), Directive(DocDirOpen, << "d" >>),
      Directive(ExecuteOpen, << "x" >>), Directive(ExecuteOpen, << "y" >>),
      Directive(LScriptOpen, << "x" >>), Directive(WScriptOpen, << "x" >>),
      Directive(WLinkOpen, << "k", Sp, "a" >>), Directive(WLinkOpen, << "k" >>),
      Directive(WLinkOpen, << "j", Sp, "b", Sp, "a" >>),
      Directive(LLinkOpen, << "k", Sp, "a" >>) }

\* documents of different directives, on one line
MetaTexts ==
    { Join(ds, Sp) :
        ds \in { q \in SeqsUpTo(Directives, MaxDirectives) :
                   \A i \in 1..Len(q) : \A j \in 1..Len(q) : q[i] = q[j] => i = j } }

FragmentNames == { << "A", ".", "p" >>, << "A", ".", "q" >>, << "A" >>, << "B" >> }

FragmentBodies == { << "x" >>, Marker(NameA) }

\* a fragment: its open line, one line of content, the closing fence
Fragments ==
    { << OpenLine(n), b, << Fence >> >> : n \in FragmentNames, b \in FragmentBodies }

\* documents of k fragments, after these lines
FragmentTexts(heads, k) ==
    { Join(head \o Concat(fs), Nl) : head \in heads, fs \in [1..k -> Fragments] }

NoFolder == << >>

\* a code folder and a documentation folder
Folders ==
    << Directive(CodeDirOpen, << "d", "/" >>), Directive(DocDirOpen, << "b", "/" >>) >>

\* lines of a fragment with several reference markers: the same fragment
\* twice, one with blanks around the name; the fragment itself; a name no
\* fragment has and then one that a fragment has; another file fragment
ReferenceLines ==
    { Marker(NameB) \o Marker(<< Sp, "B", Sp >>),
      Marker(NameA),
      Marker(<< "x" >>) \o Marker(NameB),
      Marker(<< "y" >>) }

\* a file fragment A.p of such lines, then the code fragment B and the file
\* fragment y.p
ReferenceTexts ==
    { Join(<< OpenLine(<< "A", ".", "p" >>) >> \o ls
             \o << << Fence >>, OpenLine(NameB), << "x" >>, << Fence >>,
                   OpenLine(<< "y", ".", "p" >>), << "x", "x" >> >>, Nl) :
        ls \in SeqsUpTo(ReferenceLines, MaxReferenceLines) \ { << >> } }

\* what every run starts from, whatever its files are
RunStart ==
    /\ phase = "open"
    /\ file_no = 1
    /\ text_lines = << >>
    /\ line_no = 0
    /\ container = NewContainer(<< >>)
    /\ content = << >>
    /\ language = << >>
    /\ name = << >>
    /\ block_type = "doc"
    /\ heap = << >>
    /\ containers = << >>
    /\ error = NoError
    /\ self_file_blocks = << >>
    /\ self_code_blocks = << >>
    /\ written = << >>
    /\ docs_written = << >>
    /\ weaves = 0
    /\ ExpandIdle

\* one document of lines; the fragment name A may be a directory
InitSegments ==
    /\ RunStart
    /\ filenames = << PathA >>
    /\ fs_files = { PathA }
    /\ \E ls \in SeqsUpTo(SegLines, MaxLines) :
          /\ fs_text = [ p \in { PathA } |-> Join(ls, Nl) ]
          /\ fs_dirs \in IF \E i \in 1..Len(ls) : ls[i] = OpenLine(<< "A" >>)
                         THEN { { }, { << "A" >> } }
                         ELSE { { } }

\* one document of directives; the file a local link of it names may be missing
InitMetadata ==
    /\ RunStart
    /\ filenames = << PathA >>
    /\ fs_dirs = { }
    /\ \E text \in MetaTexts :
          /\ fs_text = [ p \in { PathA } |-> text ]
          /\ fs_files \in IF \E i \in 1..Len(text) : text[i] = LLinkOpen
                          THEN { { PathA }, { PathA, LinkTarget } }
                          ELSE { { PathA } }

\* one or two documents of fragments; the first may have its folders
InitFragments ==
    /\ RunStart
    /\ fs_dirs = { }
    /\ \/ /\ filenames = << PathA >>
          /\ fs_files = { PathA }
          /\ \E k \in 0..MaxFragments :
             \E t \in FragmentTexts({ NoFolder, Folders }, k) :
                fs_text = [ p \in { PathA } |-> t ]
       \/ /\ filenames = << PathA, PathB >>
          /\ fs_files = { PathA, PathB }
          /\ \E k \in 0..MaxFragments : \E j \in 0..(MaxFragments - k) :
             \E t \in FragmentTexts({ NoFolder, Folders }, k) :
             \E u \in FragmentTexts({ NoFolder }, j) :
                fs_text = [ p \in { PathA, PathB } |-> IF p = PathA THEN t ELSE u ]

\* one document whose first fragment holds several reference markers
InitReferences ==
    /\ RunStart
    /\ filenames = << PathA >>
    /\ fs_files = { PathA }
    /\ fs_dirs = { }
    /\ \E text \in ReferenceTexts : fs_text = [ p \in { PathA } |-> text ]

\* two documents whose files have the same name without the extension, one
\* fragment each; the first has its folders
InitSameName ==
    /\ RunStart
    /\ filenames = << PathA, PathC >>
    /\ fs_files = { PathA, PathC }
    /\ fs_dirs = { }
    /\ \E t \in FragmentTexts({ Folders }, 1) :
       \E u \in FragmentTexts({ NoFolder, Folders }, 1) :
          fs_text = [ p \in { PathA, PathC } |-> IF p = PathA THEN t ELSE u ]

\* a file that is missing, or is a directory
InitMissing ==
    /\ RunStart
    /\ filenames = << PathA >>
    /\ fs_files = { }
    /\ fs_dirs \in { { }, { PathA } }
    /\ fs_text = << >>

Init ==
    \/ InitSegments \/ InitMetadata \/ InitFragments \/ InitReferences
    \/ InitSameName \/ InitMissing

-----------------------------------------------------------------------------
(* The program runs: Litera(filenames), then write_code *)

filename == filenames[file_no]

\* a parse_files that records the exception and returns the containers it has
Raise_AndReturn(e) ==
    /\ error' = e
    /\ phase' = "parsed"
    /\ UNCHANGED << content, expand_vars, fs_vars, parse_vars, heap,
                    containers, litera_vars >>

\* an exception leaves the run where it was raised
Raise(e) ==
    /\ error' = e
    /\ UNCHANGED << phase, content, expand_vars, fs_vars, parse_vars, heap,
                    containers, litera_vars >>

\* container.add(make_block(block_type, content, filename, language, name))
Added(c) == [ c EXCEPT !.blocks = Append(@, Len(heap) + 1) ]

Made == Append(heap, MakeBlock(block_type, content, filename, language, name))

\* parse_files, one file: Container(filename), the read, the empty check
OpenFile ==
    /\ phase = "open"
    /\ error = NoError
    /\ IF ContainerError(filename) # NoError THEN Raise(ContainerError(filename))
       ELSE IF Strip(fs_text[filename]) = << >> THEN Raise("ValueError")
       ELSE /\ container' = NewContainer(filename)
            /\ phase' = "metadata"
            /\ UNCHANGED << content, expand_vars, fs_vars, file_no, text_lines,
                            line_no, language, name, block_type, heap,
                            containers, error, litera_vars >>

\* parse_files, one file: the metadata and the links, then the locals of the scan
ExtractMetadata ==
    /\ phase = "metadata"
    /\ error = NoError
    /\ LET text == fs_text[filename]
       IN  IF MetadataError(text) # NoError THEN Raise(MetadataError(text))
           ELSE /\ container' = WithMetadata(container, text)
                /\ content' = << >>
                /\ language' = << >>
                /\ name' = << >>
                /\ block_type' = "doc"
                /\ text_lines' = Split(text, Nl)
                /\ line_no' = 1
                /\ phase' = "scan"
                /\ UNCHANGED << expand_vars, fs_vars, file_no, heap, containers,
                                error, litera_vars >>

\* mutant: a fragment is left unfinished when the next one opens
AddedAtOpen_ProseOnly == content # << >> /\ block_type = "doc"

\* at a fragment-open line: a block is added if content was accumulated
AddedAtOpen == content # << >>

\* mutant: whatever content was accumulated is made a block at a fence
AddedAtClose_ProseToo == content # << >>

\* at a closing fence: a block is added if content was accumulated in a fragment
AddedAtClose == block_type \in { "file", "code" } /\ content # << >>

\* parse_files, one file: one turn of the loop over the lines
ScanLine ==
    /\ phase = "scan"
    /\ error = NoError
    /\ line_no <= Len(text_lines)
    /\ LET line == text_lines[line_no]
           start_match == StartMatch(line)
           end_match == EndMatch(line)
           adds == IF start_match # NoMatch THEN AddedAtOpen
                   ELSE IF end_match THEN AddedAtClose
                   ELSE FALSE
           e == IF adds THEN MakeBlockError(block_type, filename, name) ELSE NoError
       IN  IF e # NoError THEN Raise(e)
           ELSE /\ heap' = IF adds THEN Made ELSE heap
                /\ container' = IF adds THEN Added(container) ELSE container
                /\ IF start_match # NoMatch
                   THEN /\ content' = << >>
                        /\ language' = Strip(start_match[1])
                        /\ name' = Strip(start_match[2])
                        /\ block_type' = BlockTypeOf(name')
                   ELSE IF end_match
                   THEN /\ content' = << >>
                        /\ language' = << >>
                        /\ name' = << >>
                        /\ block_type' = "doc"
                   ELSE /\ content' = content \o line \o << Nl >>
                        /\ UNCHANGED << language, name, block_type >>
                /\ line_no' = line_no + 1
                /\ UNCHANGED << phase, expand_vars, fs_vars, file_no, text_lines,
                                containers, error, litera_vars >>

\* mutant: whatever content is left after the last line is made a block
LastBlockAdded_ProseToo == content # << >>

\* after the last line: the last block is added if content is left in a fragment
LastBlockAdded == content # << >> /\ block_type # "doc"

\* parse_files, one file: the block left after the last line, the container
\* stored under its name, and on to the next file or to the return
EndOfFile ==
    /\ phase = "scan"
    /\ error = NoError
    /\ line_no > Len(text_lines)
    /\ LET adds == LastBlockAdded
           e == IF adds THEN MakeBlockError(block_type, filename, name) ELSE NoError
           c == IF adds THEN Added(container) ELSE container
       IN  IF e # NoError THEN Raise(e)
           ELSE /\ heap' = IF adds THEN Made ELSE heap
                /\ container' = c
                /\ containers' = DictSet(containers, c.name, c)
                /\ IF file_no < Len(filenames)
                   THEN /\ file_no' = file_no + 1
                        /\ phase' = "open"
                   ELSE /\ phase' = "parsed"
                        /\ UNCHANGED file_no
                /\ UNCHANGED << content, expand_vars, fs_vars, text_lines,
                                line_no, language, name, block_type, error,
                                litera_vars >>

\* the blocks of every container, in the order make_blocks visits them
RECURSIVE BlocksOf(_)
BlocksOf(cs) ==
    IF cs = << >> THEN << >> ELSE Head(cs).blocks \o BlocksOf(Tail(cs))

RECURSIVE Registered(_, _, _)
\* the registry of one type after the blocks ids have been visited
Registered(registry, ids, type) ==
    IF ids = << >> THEN registry
    ELSE Registered(IF heap[Head(ids)].type = type
                    THEN DictSet(registry, heap[Head(ids)].name, Head(ids))
                    ELSE registry,
                    Tail(ids), type)

\* Litera.__init__ after parse_files: the empty registries, make_blocks
MakeBlocks ==
    /\ phase = "parsed"
    /\ error = NoError
    /\ self_file_blocks' = Registered(<< >>, BlocksOf(DictValues(containers)), "file")
    /\ self_code_blocks' = Registered(<< >>, BlocksOf(DictValues(containers)), "code")
    /\ phase' = "ready"
    /\ UNCHANGED << content, expand_vars, fs_vars, parse_vars, heap, containers,
                    error, written, docs_written, weaves >>

\* mutant: the file fragments are given to replace_calls as well
CodeBlocks_WithFiles ==
    [ n \in { self_code_blocks[i].key : i \in 1..Len(self_code_blocks) }
             \cup { self_file_blocks[i].key : i \in 1..Len(self_file_blocks) } |->
        heap[IF DictHas(self_code_blocks, n) THEN DictGet(self_code_blocks, n)
             ELSE DictGet(self_file_blocks, n)] ]

\* self.code_blocks as replace_calls reads it
CodeBlocks ==
    [ n \in { self_code_blocks[i].key : i \in 1..Len(self_code_blocks) } |->
        heap[DictGet(self_code_blocks, n)] ]

\* the path and the text write_code writes for the file block under a key
OutputOf(key) ==
    LET block == heap[DictGet(self_file_blocks, key)]
    IN  [ key   |-> DictGet(containers, block.container).code_dir \o block.location,
          value |-> ReplaceCalls(block.content, CodeBlocks, 0, DefaultMaxIndex) ]

RECURSIVE WrittenAfter(_, _)
\* the files written, after the loop over these keys
WrittenAfter(files, keys) ==
    IF keys = << >> THEN files
    ELSE WrittenAfter(DictSet(files, OutputOf(Head(keys)).key,
                              OutputOf(Head(keys)).value), Tail(keys))

\* the directories os.makedirs creates in write_code
MadeDirs ==
    { DictGet(containers, heap[self_file_blocks[i].value].container).code_dir :
        i \in 1..Len(self_file_blocks) } \ { << >> }

\* Litera.write_code
WriteCode ==
    /\ phase = "ready"
    /\ error = NoError
    /\ written' = WrittenAfter(written, DictKeys(self_file_blocks))
    /\ fs_dirs' = fs_dirs \cup MadeDirs
    /\ fs_files' = fs_files \cup { written'[i].key : i \in 1..Len(written') }
    /\ phase' = "tangled"
    /\ UNCHANGED << content, expand_vars, filenames, fs_text, parse_vars, heap,
                    containers, error, self_file_blocks, self_code_blocks,
                    docs_written, weaves >>

\* self.file_blocks merged with self.code_blocks, as write_documentation
\* makes it
blocks_dict == DictUpdate(self_file_blocks, self_code_blocks)

\* os.path.join(a, b) for a relative b
PathJoin(a, b) ==
    IF a = << >> \/ a[Len(a)] = "/" THEN a \o b ELSE a \o << "/" >> \o b

DotHtml == << ".", "h", "t", "m", "l" >>

\* block.type as text
TypeText(type) ==
    IF type = "file" THEN << "f", "i", "l", "e" >>
    ELSE IF type = "code" THEN << "c", "o", "d", "e" >>
    ELSE << "d", "o", "c" >>

\* os.path.join(container_dict[block.container].doc_dir, block.container + ".html")
DocPathOf(block) ==
    PathJoin(DictGet(containers, block.container).doc_dir, block.container \o DotHtml)

\* mutant: the target's own type in the calls entry
CallingBlockName_OwnType(block) ==
    DocPathOf(block) \o << "#" >> \o TypeText(block.type) \o << ":", ":" >> \o block.name

\* calling_block_name: the target as the caller's calling list names it
CallingBlockName(block) ==
    DocPathOf(block) \o << "#" >> \o TypeText("code") \o << ":", ":" >> \o block.name

\* mutant: the page without its directory
CallingName_NoDir(block) ==
    block.container \o DotHtml \o << "#" >> \o TypeText(block.type)
        \o << ":", ":" >> \o block.name

\* block.calling_name as find_calls sets it
CallingName(block) ==
    DocPathOf(block) \o << "#" >> \o TypeText(block.type) \o << ":", ":" >> \o block.name

RECURSIVE CallsDone(_, _, _, _)
\* mutant: a name the mapping does not hold ends the loop over the calls
CallsDone_StopsAtUnknown(h, blocks, id, calls) ==
    IF calls = << >> THEN h
    ELSE LET stripped_call == Strip(Head(calls))
         IN  IF ~ DictHas(blocks, stripped_call) THEN h
             ELSE LET calling_block == DictGet(blocks, stripped_call)
                      appended ==
                          [ h EXCEPT ![calling_block].called_by =
                                         Append(@, h[id].calling_name) ]
                  IN  CallsDone([ appended EXCEPT ![id].calling =
                                      Append(@, CallingBlockName(h[calling_block])) ],
                                blocks, id, Tail(calls))

\* the blocks after "for call in calls" of one line of the block id
CallsDone(h, blocks, id, calls) ==
    IF calls = << >> THEN h
    ELSE LET stripped_call == Strip(Head(calls))
         IN  IF ~ DictHas(blocks, stripped_call)
             THEN CallsDone(h, blocks, id, Tail(calls))
             ELSE LET calling_block == DictGet(blocks, stripped_call)
                      appended ==
                          [ h EXCEPT ![calling_block].called_by =
                                         Append(@, h[id].calling_name) ]
                  IN  CallsDone([ appended EXCEPT ![id].calling =
                                      Append(@, CallingBlockName(h[calling_block])) ],
                                blocks, id, Tail(calls))

RECURSIVE LinesDone(_, _, _, _)
\* the blocks after "for line in lines" of the block id
LinesDone(h, blocks, id, ls) ==
    IF ls = << >> THEN h
    ELSE LinesDone(CallsDone(h, blocks, id, FindAll(Call, Head(ls))),
                   blocks, id, Tail(ls))

\* mutant: the calls and called-by lists of the block are emptied before its scan
Scanned_ListsReset(h, blocks, id) ==
    LinesDone([ h EXCEPT ![id].calling_name = CallingName(h[id]),
                         ![id].calling = << >>,
                         ![id].called_by = << >> ],
              blocks, id, Split(h[id].content, Nl))

\* the blocks after one turn of "for block in blocks.values()"
Scanned(h, blocks, id) ==
    LinesDone([ h EXCEPT ![id].calling_name = CallingName(h[id]) ],
              blocks, id, Split(h[id].content, Nl))

RECURSIVE BlocksDone(_, _, _)
\* mutant: a block that has its anchor from an earlier build is not scanned again
BlocksDone_Once(h, blocks, ids) ==
    IF ids = << >> THEN h
    ELSE IF h[Head(ids)].calling_name # << >> THEN BlocksDone(h, blocks, Tail(ids))
    ELSE BlocksDone(Scanned(h, blocks, Head(ids)), blocks, Tail(ids))

\* the blocks after "for block in blocks.values()"
BlocksDone(h, blocks, ids) ==
    IF ids = << >> THEN h
    ELSE BlocksDone(Scanned(h, blocks, Head(ids)), blocks, Tail(ids))

\* mutant: the fragments of the mapping are scanned in the order of the
\* documents and of their blocks
find_calls_InBlockOrder(h, blocks) ==
    BlocksDone(h, blocks,
               SelectSeq(BlocksOf(DictValues(containers)),
                         LAMBDA id : \E i \in 1..Len(blocks) : blocks[i].value = id))

\* find_calls: the blocks after it; the mapping itself is left as it was
find_calls(h, blocks) == BlocksDone(h, blocks, DictValues(blocks))

\* the openers "@\w+\{" matches
Openers ==
    { Call, Err, TitleOpen, DocDirOpen, CodeDirOpen, ExecuteOpen, LScriptOpen,
      WScriptOpen, LLinkOpen, WLinkOpen }

RECURSIVE RemoveCommands(_)
\* re.sub(r"@\w+\{[^}]*\}", "", s)
RemoveCommands(s) ==
    IF s = << >> THEN << >>
    ELSE IF Head(s) \in Openers /\ \E j \in 2..Len(s) : s[j] = Close
         THEN RemoveCommands(SubSeq(s, (CHOOSE j \in 2..Len(s) :
                                            /\ s[j] = Close
                                            /\ \A k \in 2..(j - 1) : s[k] # Close) + 1,
                                    Len(s)))
    ELSE << Head(s) >> \o RemoveCommands(Tail(s))

\* a documentation block's content as write_html leaves it; the heading and
\* emphasis patterns rewrite text around "#", "*" and "_" only, characters the
\* documents here are not written in, so what acts on them is the removal of
\* the commands
RenderedContent(c) == RemoveCommands(c)

\* "/".join([".."] * (len(current_dir.split("/")) - 1)) + "/"
UpPrefix(current_dir) ==
    Join([ i \in 1..(Len(Split(current_dir, "/")) - 1) |-> << ".", "." >> ], "/")
        \o << "/" >>

\* link.split("::")[-1]
DisplayText(link) ==
    IF \E i \in 1..(Len(link) - 1) : link[i] = ":" /\ link[i + 1] = ":"
    THEN SubSeq(link, (CHOOSE i \in 1..(Len(link) - 1) :
                           /\ link[i] = ":" /\ link[i + 1] = ":"
                           /\ \A j \in (i + 1)..(Len(link) - 1) :
                                  ~ (link[j] = ":" /\ link[j + 1] = ":")) + 2,
                Len(link))
    ELSE link

\* href_to_html: the address and the text of every reference
href_to_html(hrefs, current_dir) ==
    [ i \in 1..Len(hrefs) |->
        [ href |-> UpPrefix(current_dir) \o hrefs[i], text |-> DisplayText(hrefs[i]) ] ]

\* what write_html adds to html_content for one block
BlockHtml(block, doc_dir) ==
    IF block.type = "doc"
    THEN [ tag |-> "p", content |-> block.content ]
    ELSE [ tag       |-> "pre",
           class     |-> block.type,
           name      |-> block.name,
           calling   |-> href_to_html(block.calling, doc_dir),
           called_by |-> href_to_html(block.called_by, doc_dir),
           id        |-> TypeText(block.type) \o << ":", ":" >> \o block.name,
           language  |-> block.language,
           content   |-> block.content ]

\* the page write_html writes for a container: the parts of head and body
\* that are not fixed text
Page(c, h) ==
    [ title         |-> c.title,
      web_scripts   |-> c.web_script,
      local_scripts |-> [ i \in 1..Len(c.local_script) |->
                            UpPrefix(c.doc_dir) \o c.local_script[i] ],
      web_links     |-> c.web_link,
      local_links   |-> [ i \in 1..Len(c.local_link) |->
                            << c.local_link[i][1],
                               UpPrefix(c.doc_dir) \o c.local_link[i][2] >> ],
      body          |-> [ i \in 1..Len(c.blocks) |-> BlockHtml(h[c.blocks[i]], c.doc_dir) ] ]

\* mutant: the commands are removed from the content of every block
Rendered_EveryBlock(h) ==
    LET ids == BlocksOf(DictValues(containers))
    IN  [ id \in 1..Len(h) |->
            IF \E i \in 1..Len(ids) : ids[i] = id
            THEN [ h[id] EXCEPT !.content = RenderedContent(@) ]
            ELSE h[id] ]

\* the blocks after write_html: the documentation blocks of the containers
\* hold their rendered content
Rendered(h) ==
    LET ids == BlocksOf(DictValues(containers))
    IN  [ id \in 1..Len(h) |->
            IF h[id].type = "doc" /\ \E i \in 1..Len(ids) : ids[i] = id
            THEN [ h[id] EXCEPT !.content = RenderedContent(@) ]
            ELSE h[id] ]

RECURSIVE PagesAfter(_, _, _)
\* the pages written, after the loop over these containers
PagesAfter(pages, cs, h) ==
    IF cs = << >> THEN pages
    ELSE PagesAfter(DictSet(pages, PathJoin(Head(cs).doc_dir, Head(cs).name \o DotHtml),
                            Page(Head(cs), h)),
                    Tail(cs), h)

\* the directories os.makedirs creates in write_html
MadeDocDirs ==
    { containers[i].value.doc_dir : i \in 1..Len(containers) } \ { << >> }

\* Litera.write_documentation: the combined mapping, find_calls, write_html
WriteDocumentation ==
    /\ phase \in { "ready", "tangled" }
    /\ error = NoError
    /\ weaves < MaxWeaves
    /\ heap' = Rendered(find_calls(heap, blocks_dict))
    /\ docs_written' = PagesAfter(docs_written, DictValues(containers), heap')
    /\ fs_dirs' = fs_dirs \cup MadeDocDirs
    /\ fs_files' = fs_files \cup { docs_written'[i].key : i \in 1..Len(docs_written') }
    /\ weaves' = weaves + 1
    /\ UNCHANGED << phase, content, expand_vars, filenames, fs_text, parse_vars,
                    containers, error, self_file_blocks, self_code_blocks,
                    written >>

Next ==
    \/ OpenFile \/ ExtractMetadata \/ ScanLine \/ EndOfFile \/ MakeBlocks
    \/ WriteCode \/ WriteDocumentation

Spec == Init /\ [][Next]_vars

-----------------------------------------------------------------------------
(* Properties of replace_calls *)

\* number of leading spaces of a line
LeadingSpaces(l) ==
    CHOOSE n \in 0..Len(l) :
        /\ \A i \in 1..n : l[i] = Sp
        /\ n < Len(l) => l[n + 1] # Sp

\* a reference marker starts at p: "@call{" with a "}" somewhere after it
MarkerAt(l, p) == l[p] = Call /\ \E q \in (p + 1)..Len(l) : l[q] = Close

\* the "}" that ends the marker starting at p
MarkerEnd(l, p) ==
    CHOOSE q \in (p + 1)..Len(l) :
        l[q] = Close /\ \A r \in (p + 1)..(q - 1) : l[r] # Close

MarkerName(l, p) == SubSeq(l, p + 1, MarkerEnd(l, p) - 1)

Trimmed(nm) ==
    LET keep == { i \in 1..Len(nm) : nm[i] # Sp }
    IN  IF keep = { } THEN << >>
        ELSE SubSeq(nm, CHOOSE i \in keep : \A j \in keep : i <= j,
                          CHOOSE i \in keep : \A j \in keep : i >= j)

\* the reference markers of a line as the scan finds them, left to right
\* and not overlapping: the start positions
RECURSIVE MarkersFrom(_, _)
MarkersFrom(l, p) ==
    IF p > Len(l) THEN { }
    ELSE IF MarkerAt(l, p) THEN { p } \cup MarkersFrom(l, MarkerEnd(l, p) + 1)
    ELSE MarkersFrom(l, p + 1)

Markers(l) == MarkersFrom(l, 1)

Resolves(nm) == Trimmed(nm) \in DOMAIN code_blocks

\* the line holds exactly one reference marker, and it resolves
SoleResolvable(l) ==
    /\ Cardinality(Markers(l)) = 1
    /\ \A p \in Markers(l) : Resolves(MarkerName(l, p))

\* what splicing the fragment into the line at its only marker must give when
\* the lines after the first are prefixed with n spaces
Spliced(l, n) ==
    LET p    == CHOOSE q \in Markers(l) : TRUE
        body == Split(code_blocks[Trimmed(MarkerName(l, p))].content, Nl)
    IN  SubSeq(l, 1, p - 1)
          \o Join(<< body[1] >> \o
                  [ i \in 1..(Len(body) - 1) |-> Spaces(n) \o body[i + 1] ], Nl)
          \o SubSeq(l, MarkerEnd(l, p) + 1, Len(l))

\* C1 as claimed: the lines of the fragment after its first are prefixed
\* with w + 1 spaces, w the leading-whitespace width of the marker's line
C1_IndentByWPlusOne ==
    passes >= 1 =>
        \A i \in 1..Len(lines) :
            SoleResolvable(lines[i]) =>
                updated_lines[i] = Spliced(lines[i], LeadingSpaces(lines[i]) + 1)

\* C1 amended: after a pass, a line that held one resolvable reference marker
\* holds the fragment's content at the marker's position, first line
\* unchanged and every later line prefixed with exactly w spaces
C1_IndentByW ==
    passes >= 1 =>
        \A i \in 1..Len(lines) :
            SoleResolvable(lines[i]) =>
                updated_lines[i] = Spliced(lines[i], LeadingSpaces(lines[i]))

\* C1 witness: a marker two spaces deep, its two-line fragment spliced in
C1_Witness ==
    /\ passes = 1
    /\ input = << Sp, Sp >> \o Marker(NameA)
    /\ NameA \in DOMAIN code_blocks
    /\ code_blocks[NameA].content = << "x", Nl, "y" >>
    /\ block_text = << Sp, Sp, "x", Nl, Sp, Sp, "y" >>

\* C2: with a finite pass limit replace_calls returns, whatever the registry.
\* A pass is possible in every state of a running call, so it is enough that
\* every pass that does not return raises index by one (passes = index while
\* the call runs) and that index never passes the limit: the call returns
\* block_text after at most max_index + 1 passes
C2_FiniteLimitReturns ==
    max_index # -1 =>
        /\ index <= max_index
        /\ phase = "expand" => passes = index
        /\ phase = "returned" => passes = index + 1

\* C2 witness: on a reference cycle the call returned at the limit with a
\* marker left in the text
C2_Witness ==
    /\ phase = "returned"
    /\ index = max_index
    /\ HasCall(block_text)
    /\ NameA \in DOMAIN code_blocks /\ NameB \in DOMAIN code_blocks
    /\ code_blocks[NameA].content = Marker(NameB)
    /\ code_blocks[NameB].content = Marker(NameA)
    /\ input = Marker(NameA)

\* the error marker that stands for the reference marker with this name
ErrorMarker(nm) == << Err >> \o nm \o << Close >>

\* no resolvable marker of the line starts before (after) position p
NoneResolvedBefore(l, p) ==
    \A q \in Markers(l) : q < p => ~ Resolves(MarkerName(l, q))

NoneResolvedAfter(l, p) ==
    \A q \in Markers(l) : q > p => ~ Resolves(MarkerName(l, q))

\* in the updated line o of l, the unresolved marker that started at p in l
\* has become the error marker with the same name
BecameError(l, o, p) ==
    LET e == ErrorMarker(MarkerName(l, p))
    IN  /\ NoneResolvedBefore(l, p) => StartsWithAt(o, p, e)
        /\ NoneResolvedAfter(l, p) => StartsWithAt(o, Len(o) - Len(l) + p, e)

\* the rest of the content is processed as if no marker had failed
OthersProcessed ==
    /\ Len(updated_lines) = Len(lines)
    /\ \A i \in 1..Len(lines) :
          /\ Markers(lines[i]) = { } => updated_lines[i] = lines[i]
          /\ SoleResolvable(lines[i]) =>
                updated_lines[i] = Spliced(lines[i], LeadingSpaces(lines[i]))

\* C3 as claimed: after a pass every reference marker whose trimmed name is
\* not registered has become the error marker with that same name, and the
\* other lines and markers were processed
C3_UnresolvedBecomesError ==
    passes >= 1 =>
        /\ OthersProcessed
        /\ \A i \in 1..Len(lines) : \A p \in Markers(lines[i]) :
              ~ Resolves(MarkerName(lines[i], p)) =>
                  BecameError(lines[i], updated_lines[i], p)

HoldsOpener(nm) == \E k \in 1..Len(nm) : nm[k] = Call

\* C3 restricted to names that hold no "@call{" themselves
C3_PlainUnresolvedBecomesError ==
    passes >= 1 =>
        /\ OthersProcessed
        /\ \A i \in 1..Len(lines) : \A p \in Markers(lines[i]) :
              /\ ~ Resolves(MarkerName(lines[i], p))
              /\ ~ HoldsOpener(MarkerName(lines[i], p))
              => BecameError(lines[i], updated_lines[i], p)

\* C3 witness: an unregistered name on one line became an error marker while
\* the registered one on the next line was spliced
C3_Witness ==
    /\ passes = 1
    /\ input = Marker(<< Sp, "B", Sp >>) \o << Nl >> \o Marker(NameA)
    /\ DOMAIN code_blocks = { NameA }
    /\ code_blocks[NameA].content = << "x", Nl, "y" >>
    /\ block_text = ErrorMarker(<< Sp, "B", Sp >>) \o << Nl, "x", Nl, "y" >>

\* the registry's reference graph: n refers to m
Refers(blocks, n, m) ==
    LET ls == Split(blocks[n].content, Nl)
    IN  \E i \in 1..Len(ls) : \E p \in Markers(ls[i]) :
            Trimmed(MarkerName(ls[i], p)) = m

RECURSIVE Reaches(_, _, _, _)
\* m is reachable from n in at most k steps
Reaches(blocks, n, m, k) ==
    /\ k > 0
    /\ \/ Refers(blocks, n, m)
       \/ \E x \in DOMAIN blocks :
              Refers(blocks, n, x) /\ Reaches(blocks, x, m, k - 1)

Acyclic(blocks) ==
    \A n \in DOMAIN blocks : ~ Reaches(blocks, n, n, Cardinality(DOMAIN blocks))

\* every "@call{" of the text starts a reference marker with a plain name
WellFormed(text) ==
    LET ls == Split(text, Nl)
    IN  \A i \in 1..Len(ls) : \A p \in 1..Len(ls[i]) :
            ls[i][p] = Call =>
                MarkerAt(ls[i], p) /\ ~ HoldsOpener(MarkerName(ls[i], p))

\* C4 as claimed: on an acyclic reference graph expanding the result of an
\* expansion again, with the same registry and limit, changes nothing (stated
\* for well-formed content and fragments only)
C4_IdempotentOnAcyclic ==
    /\ calls_made = 2
    /\ Acyclic(code_blocks)
    /\ WellFormed(input)
    /\ \A n \in DOMAIN code_blocks : WellFormed(code_blocks[n].content)
    => block_text = first_result

\* C4 amended: when the first expansion returned a text with no reference
\* marker left, expanding that text again returns it unchanged, in one pass
C4_IdempotentOnceConverged ==
    calls_made = 2 /\ ~ HasCall(first_result) =>
        block_text = first_result /\ passes = 1

\* C4 witness: a chain of two fragments expanded down to plain text within the
\* limit, and the second expansion returned the same text
C4_Witness ==
    /\ calls_made = 2
    /\ Acyclic(code_blocks)
    /\ NameA \in DOMAIN code_blocks /\ NameB \in DOMAIN code_blocks
    /\ code_blocks[NameA].content = Marker(NameB)
    /\ code_blocks[NameB].content = << "x", Nl, "y" >>
    /\ first_result = << Sp, "x", Nl, Sp, "y" >>
    /\ block_text = first_result

-----------------------------------------------------------------------------
(* Properties of the program runs *)

\* a directive starts at p: its opener with a "}" after it on the same line
DirectiveAt(text, p, opener) ==
    /\ text[p] = opener
    /\ \E q \in (p + 1)..Len(text) :
          text[q] = Close /\ \A r \in (p + 1)..(q - 1) : text[r] # Nl

\* what stands between the opener at p and the first "}" after it
DirectiveValue(text, p) ==
    SubSeq(text, p + 1,
           (CHOOSE q \in (p + 1)..Len(text) :
                text[q] = Close /\ \A r \in (p + 1)..(q - 1) : text[r] # Close) - 1)

\* the values of a directive's occurrences, in order of appearance
Occurrences(opener, text) ==
    LET at == { p \in 1..Len(text) : DirectiveAt(text, p, opener) }
    IN  [ i \in 1..Cardinality(at) |->
            DirectiveValue(text, CHOOSE p \in at :
                                     Cardinality({ q \in at : q <= p }) = i) ]

\* the value of the last occurrence, the empty string without any
LastOccurrence(opener, text) ==
    LET at == { p \in 1..Len(text) : DirectiveAt(text, p, opener) }
    IN  IF at = { } THEN << >>
        ELSE DirectiveValue(text, CHOOSE p \in at : \A q \in at : q <= p)

\* the whitespace-separated tokens of a value, left to right
RECURSIVE Tokens(_, _)
Tokens(v, word) ==
    IF v = << >> THEN (IF word = << >> THEN << >> ELSE << word >>)
    ELSE IF IsSpace(Head(v))
         THEN (IF word = << >> THEN << >> ELSE << word >>) \o Tokens(Tail(v), << >>)
    ELSE Tokens(Tail(v), Append(word, Head(v)))

\* the metadata of the current file has been extracted, or has failed
MetadataRan == phase = "scan" \/ (phase = "metadata" /\ error # NoError)

MetadataFailed == phase = "metadata" /\ error # NoError

\* what the parse gives a fragment block: all but its cross-references
AsParsed(block) ==
    [ type      |-> block.type,
      content   |-> block.content,
      container |-> block.container,
      language  |-> block.language,
      location  |-> block.location,
      name      |-> block.name ]

\* the fragment blocks of a container, in order
RECURSIVE FragmentsOf(_)
FragmentsOf(ids) ==
    IF ids = << >> THEN << >>
    ELSE (IF heap[Head(ids)].type = "doc" THEN << >>
          ELSE << AsParsed(heap[Head(ids)]) >>)
         \o FragmentsOf(Tail(ids))

IsFence(line) == line # << >> /\ line[1] = Fence

\* the first fence line after line i, or the end of the lines
NextFence(ls, i) ==
    CHOOSE j \in (i + 1)..(Len(ls) + 1) :
        /\ j <= Len(ls) => IsFence(ls[j])
        /\ \A k \in (i + 1)..(j - 1) : ~ IsFence(ls[k])

\* the lines between the fragment-open line i and the next fence
Between(ls, i) == SubSeq(ls, i + 1, NextFence(ls, i) - 1)

\* the name token ends in a dot followed by word characters
TokenHasExtension(token) ==
    \E d \in 1..(Len(token) - 1) :
        /\ token[d] = "."
        /\ \A j \in (d + 1)..Len(token) : token[j] # "." /\ IsWordChar(token[j])

\* the name token up to its last dot, the whole token when it has none
WithoutExtension(token) ==
    IF \A d \in 1..Len(token) : token[d] # "." THEN token
    ELSE SubSeq(token, 1,
                (CHOOSE d \in 1..Len(token) :
                     token[d] = "." /\ \A j \in (d + 1)..Len(token) : token[j] # ".") - 1)

\* lines joined by line breaks, the empty lines at the end left out
RECURSIVE JoinedTrimmed(_)
JoinedTrimmed(ls) ==
    IF ls = << >> THEN << >>
    ELSE IF ls[Len(ls)] = << >> THEN JoinedTrimmed(SubSeq(ls, 1, Len(ls) - 1))
    ELSE Join(ls, Nl)

\* the fragment the open line i stands for, with this content
FragmentFor(ls, i, path, c) ==
    LET token == StartMatch(ls[i])[2]
    IN  [ type      |-> IF TokenHasExtension(token) THEN "file" ELSE "code",
          content   |-> c,
          container |-> RSplitDot(Basename(path)),
          language  |-> StartMatch(ls[i])[1],
          location  |-> token,
          name      |-> WithoutExtension(token) ]

RECURSIVE ClaimedFragments(_, _, _)
\* one fragment for every open line, its content the lines up to the next fence
ClaimedFragments(ls, i, path) ==
    IF i > Len(ls) THEN << >>
    ELSE (IF StartMatch(ls[i]) # NoMatch
          THEN << FragmentFor(ls, i, path, Join(Between(ls, i), Nl)) >>
          ELSE << >>) \o ClaimedFragments(ls, i + 1, path)

RECURSIVE ActualFragments(_, _, _)
\* one fragment for every open line that has a line before the next fence, its
\* content those lines without the line breaks at the end
ActualFragments(ls, i, path) ==
    IF i > Len(ls) THEN << >>
    ELSE (IF StartMatch(ls[i]) # NoMatch /\ Between(ls, i) # << >>
          THEN << FragmentFor(ls, i, path, JoinedTrimmed(Between(ls, i))) >>
          ELSE << >>) \o ActualFragments(ls, i + 1, path)

Parsed == phase \in { "parsed", "ready", "tangled" }

\* the files of the run, by position
Files == 1..Len(filenames)

ContainerOf(f) == DictGet(containers, RSplitDot(Basename(filenames[f])))

FileBlockIds == { id \in 1..Len(heap) : heap[id].type = "file" }

CodeBlockIds == { id \in 1..Len(heap) : heap[id].type = "code" }

\* the path write_code is to write a file block to
OutputPath(id) == DictGet(containers, heap[id].container).code_dir \o heap[id].location

\* the block's content with the references expanded
Expanded(id) == ReplaceCalls(heap[id].content, CodeBlocks, 0, DefaultMaxIndex)

WrittenAt(path, text) ==
    \E i \in 1..Len(written) : written[i].key = path /\ written[i].value = text

\* C5 as claimed: after write_code every file block whose output path no other
\* file block shares has been written, at its document's code directory
\* followed by its output path, with its expanded text
C5_EveryFileFragmentWritten ==
    phase = "tangled" =>
        \A id \in FileBlockIds :
            (\A other \in FileBlockIds \ { id } : OutputPath(other) # OutputPath(id))
                => WrittenAt(OutputPath(id), Expanded(id))

\* the scan of a file has just ended: the next file is not opened yet, or
\* parse_files has returned and nothing else has run; container is the
\* document of that file
FileScanned == phase = "parsed" \/ (phase = "open" /\ file_no > 1)

\* the file whose scan ended last
LastScanned == filenames[IF phase = "parsed" THEN Len(filenames) ELSE file_no - 1]

\* C6 as claimed: every fragment-open line makes a fragment, a file fragment
\* exactly when its name token has an extension, and the fragment's content is
\* exactly the lines between the open line and the next fence
C6_EveryOpenLineMakesFragment ==
    FileScanned =>
        FragmentsOf(container.blocks)
            = ClaimedFragments(Split(fs_text[LastScanned], Nl), 1, LastScanned)

\* C6: when the parse succeeds, the fragments of a document are those of its
\* fragment-open lines that have at least one line before the next fence (or
\* the end of the text), in order: a file fragment exactly when the name token
\* ends in a dot and word characters, a code fragment otherwise, named by the
\* token up to its last dot and located at the whole token, the content being
\* those lines joined by line breaks with the line breaks at the end removed
C6_FragmentsOfOpenLines ==
    FileScanned =>
        FragmentsOf(container.blocks)
            = ActualFragments(Split(fs_text[LastScanned], Nl), 1, LastScanned)

\* C6 witness: a parsed document with a file fragment that ends at the open
\* line of a code fragment, which ends with the text
C6_Witness ==
    /\ Parsed
    /\ Len(heap) = 2
    /\ heap[1].type = "file" /\ heap[1].name = << "A" >>
    /\ heap[1].location = << "A", ".", "p" >>
    /\ heap[2].type = "code" /\ heap[2].name = << "A" >>
    /\ heap[1].content = << "x" >>

BadDir(v) == v # << >> /\ v[Len(v)] # "/"

\* the values of both directory directives
DirValues(text) ==
    { Occurrences(DocDirOpen, text)[i] : i \in 1..Len(Occurrences(DocDirOpen, text)) }
    \cup
    { Occurrences(CodeDirOpen, text)[i] : i \in 1..Len(Occurrences(CodeDirOpen, text)) }

\* C7 as claimed: a document with a directory directive whose value (even a
\* value that is not empty) does not end in "/" fails with a ValueError
C7_AnyBadDirFails ==
    MetadataRan =>
        ((\E v \in DirValues(fs_text[filename]) : BadDir(v))
            => MetadataFailed /\ error = "ValueError")

\* C7: the metadata fails with a ValueError exactly when the last value of
\* @documentation_folder or of @code_folder is not empty and does not end in
\* "/"; when the metadata does not fail, the document's directories are these
\* last values as written
C7_LastDirDecides ==
    MetadataRan =>
        LET dd == LastOccurrence(DocDirOpen, fs_text[filename])
            cd == LastOccurrence(CodeDirOpen, fs_text[filename])
        IN  /\ (BadDir(dd) \/ BadDir(cd)) <=> (MetadataFailed /\ error = "ValueError")
            /\ phase = "scan" => container.doc_dir = dd /\ container.code_dir = cd

\* C7 witness: a value without "/" followed by one with it, and the document's
\* code directory is the second
C7_Witness ==
    /\ phase = "scan"
    /\ Occurrences(CodeDirOpen, fs_text[filename]) = << << "d" >>, << "d", "/" >> >>
    /\ container.code_dir = << "d", "/" >>

\* the first two tokens of each link value
LinkPairs(values) ==
    [ i \in 1..Len(values) |->
        << Tokens(values[i], << >>)[1], Tokens(values[i], << >>)[2] >> ]

\* C8: after the metadata is extracted, the repeatable directives hold the
\* values of all their occurrences in order of appearance (of a link, its kind
\* and its address), and the singular ones the value of their last occurrence,
\* the empty string without any
C8_EncounterOrder ==
    phase = "scan" =>
        LET text == fs_text[filename]
        IN  /\ container.execute = Occurrences(ExecuteOpen, text)
            /\ container.local_script = Occurrences(LScriptOpen, text)
            /\ container.web_script = Occurrences(WScriptOpen, text)
            /\ container.local_link = LinkPairs(Occurrences(LLinkOpen, text))
            /\ container.web_link = LinkPairs(Occurrences(WLinkOpen, text))
            /\ container.title = LastOccurrence(TitleOpen, text)
            /\ container.code_dir = LastOccurrence(CodeDirOpen, text)
            /\ container.doc_dir = LastOccurrence(DocDirOpen, text)

\* C8 witness: two different commands held in their order, next to a title
C8_Witness ==
    /\ phase = "scan"
    /\ container.execute = << << "y" >>, << "x" >> >>
    /\ container.title # << >>

\* the values of both link directives
LinkValues(text) ==
    { Occurrences(LLinkOpen, text)[i] : i \in 1..Len(Occurrences(LLinkOpen, text)) }
    \cup
    { Occurrences(WLinkOpen, text)[i] : i \in 1..Len(Occurrences(WLinkOpen, text)) }

\* C9 as claimed: a document with a link directive whose value is not exactly
\* two tokens fails to parse
C9_WrongTokenCountFails ==
    MetadataRan =>
        ((\E v \in LinkValues(fs_text[filename]) : Len(Tokens(v, << >>)) # 2)
            => MetadataFailed)

\* the last parsed block of these that has the name
LastNamed(ids, n) ==
    CHOOSE id \in ids :
        heap[id].name = n /\ \A other \in ids : heap[other].name = n => other <= id

\* the blocks of the documents parse_files returns
RetainedIds ==
    LET ids == BlocksOf(DictValues(containers))
    IN  { ids[i] : i \in 1..Len(ids) }

RetainedFileIds == FileBlockIds \cap RetainedIds

RetainedCodeIds == CodeBlockIds \cap RetainedIds

FragmentNamesParsed == { heap[id].name : id \in RetainedFileIds \cup RetainedCodeIds }

Registries == phase \in { "ready", "tangled" }

\* C10 as claimed: under every name, the registries and the combined mapping
\* hold the fragment of that name parsed last, of whichever kind
C10_LastParsedWinsAcrossKinds ==
    Registries =>
        \A n \in FragmentNamesParsed :
            LET last == LastNamed(RetainedFileIds \cup RetainedCodeIds, n)
            IN  /\ DictGet(blocks_dict, n) = last
                /\ DictHas(self_file_blocks, n) => DictGet(self_file_blocks, n) = last
                /\ DictHas(self_code_blocks, n) => DictGet(self_code_blocks, n) = last

\* C10: the file registry holds under a name the file fragment of that name
\* parsed last, the code registry the code fragment of that name parsed last,
\* and the combined mapping the code registry's fragment when there is one and
\* the file registry's otherwise (looked at when make_blocks has returned; the
\* registries and the fragments stay as they are from then on, see C21)
C10_LastParsedWinsWithinKind ==
    (phase = "ready" /\ weaves = 0) =>
        \A n \in FragmentNamesParsed :
            LET files == { id \in RetainedFileIds : heap[id].name = n }
                codes == { id \in RetainedCodeIds : heap[id].name = n }
            IN  /\ DictHas(self_file_blocks, n) <=> files # { }
                /\ DictHas(self_code_blocks, n) <=> codes # { }
                /\ files # { } =>
                      DictGet(self_file_blocks, n) = LastNamed(RetainedFileIds, n)
                /\ codes # { } =>
                      DictGet(self_code_blocks, n) = LastNamed(RetainedCodeIds, n)
                /\ DictGet(blocks_dict, n) =
                      IF codes # { } THEN LastNamed(RetainedCodeIds, n)
                      ELSE LastNamed(RetainedFileIds, n)

\* C10 witness: a code fragment, then a file fragment of the same name in a
\* later document; the combined mapping holds the code fragment
C10_Witness ==
    /\ Registries
    /\ Len(heap) = 2
    /\ heap[1].type = "code" /\ heap[2].type = "file"
    /\ heap[1].name = heap[2].name
    /\ heap[1].container # heap[2].container
    /\ DictGet(blocks_dict, heap[1].name) = 1

-----------------------------------------------------------------------------
(* Properties of the cross-references *)

FragmentIds == FileBlockIds \cup CodeBlockIds

\* the fragments the combined mapping holds
MappedIds == { blocks_dict[i].value : i \in 1..Len(blocks_dict) }

Woven == weaves >= 1

KindText(id) ==
    IF heap[id].type = "file" THEN << "f", "i", "l", "e" >> ELSE << "c", "o", "d", "e" >>

\* <documentation dir><document name>.html
PageOf(id) ==
    DictGet(containers, heap[id].container).doc_dir \o heap[id].container
        \o << ".", "h", "t", "m", "l" >>

\* <documentation dir><document name>.html#<kind>::<name>
AnchorAs(id, kind) == PageOf(id) \o << "#" >> \o kind \o << ":", ":" >> \o heap[id].name

OwnAnchor(id) == AnchorAs(id, KindText(id))

\* C11 as claimed: after the cross-references are built, every fragment block
\* has its anchor, <documentation dir><document name>.html#<kind>::<name>
C11_EveryFragmentHasAnchor ==
    Woven => \A id \in FragmentIds : heap[id].calling_name = OwnAnchor(id)

\* C11: after the cross-references are built, every fragment block that the
\* combined mapping holds has its anchor, <documentation dir><document
\* name>.html#<kind>::<name>, and every other fragment block has the empty
\* anchor it was created with
C11_MappedFragmentsHaveAnchor ==
    Woven =>
        \A id \in FragmentIds :
            heap[id].calling_name = IF id \in MappedIds THEN OwnAnchor(id) ELSE << >>

\* C11 witness: a file fragment and a code fragment of a document with a
\* documentation folder, each with its anchor
C11_Witness ==
    /\ Woven
    /\ \E f \in FileBlockIds : \E c \in CodeBlockIds :
          /\ heap[f].calling_name = << "b", "/", "a", ".", "h", "t", "m", "l", "#",
                                       "f", "i", "l", "e", ":", ":", "A" >>
          /\ heap[c].calling_name = << "b", "/", "a", ".", "h", "t", "m", "l", "#",
                                       "c", "o", "d", "e", ":", ":", "B" >>

\* how many entries of the list are this anchor
Entries(list, anchor) == Cardinality({ i \in 1..Len(list) : list[i] = anchor })

\* the reference markers of a block's content: line and position
MarkersOf(id) ==
    LET ls == Split(heap[id].content, Nl)
    IN  { << i, p >> \in (1..Len(ls)) \X (1..Len(heap[id].content)) :
            p \in Markers(ls[i]) }

\* the trimmed name of a marker of a block's content
NameAt(id, m) == Trimmed(MarkerName(Split(heap[id].content, Nl)[m[1]], m[2]))

\* how many reference markers of a's content name b
RefsTo(a, b) == Cardinality({ m \in MarkersOf(a) : NameAt(a, m) = heap[b].name })

\* C12: after one build, for all fragments A and B of the combined mapping,
\* the entries for B in A's calls are as many as the entries for A in B's
\* called-by and as many as the reference markers to B in A's content, and
\* neither list holds anything else
C12_CallsMirrorCalledBy ==
    weaves = 1 =>
        \A a \in MappedIds :
            /\ \A b \in MappedIds :
                  /\ Entries(heap[a].calling, AnchorAs(b, << "c", "o", "d", "e" >>))
                        = RefsTo(a, b)
                  /\ Entries(heap[b].called_by, OwnAnchor(a)) = RefsTo(a, b)
            /\ \A i \in 1..Len(heap[a].calling) :
                  \E b \in MappedIds :
                      heap[a].calling[i] = AnchorAs(b, << "c", "o", "d", "e" >>)
            /\ \A i \in 1..Len(heap[a].called_by) :
                  \E b \in MappedIds : heap[a].called_by[i] = OwnAnchor(b)

\* C12 witness: A references B once; B's called-by holds the one anchor of A
\* and A's calls the one anchor naming B
C12_Witness ==
    /\ weaves = 1
    /\ \E a \in MappedIds : \E b \in MappedIds \ { a } :
          /\ RefsTo(a, b) = 1
          /\ RefsTo(b, b) = 0
          /\ heap[b].called_by = << OwnAnchor(a) >>
          /\ heap[a].calling = << AnchorAs(b, << "c", "o", "d", "e" >>) >>

\* C13: when any file of the list raises, parse_files returns nothing: the
\* run never gets past parsing, whatever files were parsed before, so no
\* fragment is registered and nothing is tangled or woven.
C13_ParsingAllOrNothing ==
    error # NoError =>
        /\ phase \in { "open", "metadata", "scan" }
        /\ self_file_blocks = << >>
        /\ self_code_blocks = << >>
        /\ written = << >>
        /\ docs_written = << >>
        /\ weaves = 0

\* the second file raises after the first was parsed into a container with
\* a block
C13_Witness ==
    /\ error # NoError
    /\ file_no = 2
    /\ Len(containers) = 1
    /\ containers[1].value.blocks # << >>

-----------------------------------------------------------------------------
(* Properties of the pass limit *)

\* C14 as claimed: a call with the limit max_index makes at most max_index
\* passes over the text
C14_AtMostLimitPasses ==
    max_index # -1 => passes <= max_index

\* C14: a call with the limit max_index makes at most max_index + 1 passes
\* over the text, the first one and one for every level of recursion; with
\* the default limit that is at most 13 passes
C14_AtMostLimitPlusOnePasses ==
    /\ max_index # -1 => passes <= max_index + 1
    /\ max_index = DefaultMaxIndex => passes <= 13

\* C14 witness: on a self-reference a call with the default limit returned
\* after its thirteenth pass
C14_Witness ==
    /\ phase = "returned"
    /\ max_index = DefaultMaxIndex
    /\ passes = 13
    /\ HasCall(block_text)

-----------------------------------------------------------------------------
(* Properties of tangling and of the stored fragments *)

\* the file fragments of the file registry
RegisteredFileIds == { self_file_blocks[i].value : i \in 1..Len(self_file_blocks) }

\* the name is that of a file fragment and of no code fragment
FileOnly(nm) ==
    /\ \E id \in RetainedFileIds : heap[id].name = nm
    /\ \A id \in RetainedCodeIds : heap[id].name # nm

\* a marker of the block's content before the marker m names a code fragment
CodeNamedBefore(id, m) ==
    \E n \in MarkersOf(id) :
        /\ n[1] < m[1] \/ (n[1] = m[1] /\ n[2] < m[2])
        /\ \E c \in RetainedCodeIds : heap[c].name = NameAt(id, n)

\* C15: in the file write_code wrote for a file fragment, a reference marker
\* that names a file fragment and no code fragment has become the error
\* marker with the marker's name, in its place (told for the markers that no
\* reference to a code fragment precedes, whose place no splice has moved)
C15_OnlyCodeFragmentsSubstituted ==
    phase = "tangled" =>
        \A id \in RegisteredFileIds :
            (\A other \in RegisteredFileIds \ { id } : OutputPath(other) # OutputPath(id))
            => LET ls == Split(heap[id].content, Nl)
                   os == Split(DictGet(written, OutputPath(id)), Nl)
               IN  \A m \in MarkersOf(id) :
                       FileOnly(NameAt(id, m)) /\ ~ CodeNamedBefore(id, m)
                       => /\ Len(os) >= m[1]
                          /\ StartsWithAt(os[m[1]], m[2],
                                          ErrorMarker(MarkerName(ls[m[1]], m[2])))

\* C15 witness: the file fragment A refers to the registered file fragment y
\* only, and the file written for A holds the error marker and not y's text
C15_Witness ==
    /\ phase = "tangled"
    /\ \E a \in RegisteredFileIds : \E b \in RegisteredFileIds \ { a } :
          /\ heap[a].content = Marker(<< "y" >>)
          /\ heap[b].name = << "y" >>
          /\ heap[b].content = << "x", "x" >>
          /\ FileOnly(<< "y" >>)
          /\ DictGet(written, OutputPath(a)) = ErrorMarker(<< "y" >>)

\* C16 as claimed: every stored file or code fragment has a content that is
\* not empty and does not end in a line break
C16_StoredContentNonEmpty ==
    \A id \in FragmentIds :
        /\ heap[id].content # << >>
        /\ heap[id].content[Len(heap[id].content)] # Nl

Breaks(k) == [ i \in 1..k |-> Nl ]

\* C16: a file or code fragment is stored only when content was accumulated
\* for it, and what is stored is the accumulated content without the line
\* breaks at its end: it never ends in a line break, and it is empty when the
\* fragment's lines are all empty
C16_StoredContentTrimmed ==
    [][ Len(heap') > Len(heap) =>
            LET block == heap'[Len(heap')]
            IN  /\ Len(heap') = Len(heap) + 1
                /\ block.type \in { "file", "code" } =>
                      /\ block.type = block_type
                      /\ content # << >>
                      /\ block.content = << >> \/ block.content[Len(block.content)] # Nl
                      /\ \E k \in 1..Len(content) :
                            content = block.content \o Breaks(k) ]_vars

\* C16 witness: a code fragment of two empty lines, closed by a fence, is
\* stored with an empty content
C16_Witness ==
    /\ Len(heap) = 1
    /\ heap[1].type = "code"
    /\ heap[1].content = << >>
    /\ fs_text[filenames[1]]
         = Join(<< OpenLine(<< "A" >>), << >>, << >>, << Fence >> >>, Nl)

\* the scan of the current file has passed its last line
AtEndOfInput == phase = "scan" /\ error = NoError /\ line_no > Len(text_lines)

\* C17: the step at the end of the input adds a last block to the document
\* exactly when the scan is inside a fragment and content is left; the block
\* has the fragment's kind, language and name; content left outside a
\* fragment is dropped, and a document without a fence line has no blocks.
\* (A fragment that cannot be constructed stops the parse instead.)
C17_FinalBlockAtEndOfInput ==
    [][ AtEndOfInput /\ error' = NoError =>
            LET inside == block_type \in { "file", "code" }
                before == container.blocks
                after == container'.blocks
            IN  /\ inside /\ content # << >> =>
                      /\ Len(heap') = Len(heap) + 1
                      /\ after = Append(before, Len(heap'))
                      /\ heap'[Len(heap')].type = block_type
                      /\ heap'[Len(heap')].language = language
                      /\ heap'[Len(heap')].location = name
                      /\ heap'[Len(heap')].name = WithoutExtension(name)
                /\ ~ (inside /\ content # << >>) => heap' = heap /\ after = before
                /\ (\A i \in 1..Len(text_lines) : ~ IsFence(text_lines[i])) =>
                      after = << >>
                /\ DictGet(containers', container.name).blocks = after ]_vars

\* C17 witness: a document that ends inside the file fragment A.p, after a
\* line of prose, is parsed to the blocks of the two
C17_Witness ==
    /\ Parsed
    /\ Len(filenames) = 1
    /\ Len(heap) = 2
    /\ heap[1].type = "doc"
    /\ heap[2].type = "file"
    /\ heap[2].location = << "A", ".", "p" >>
    /\ heap[2].content = << "x" >>
    /\ containers[1].value.blocks = << 1, 2 >>
    /\ text_lines = << << "x" >>, OpenLine(<< "A", ".", "p" >>), << "x" >> >>

-----------------------------------------------------------------------------
(* Properties of the cross-reference entries *)

CodeKind == << "c", "o", "d", "e" >>

FileKind == << "f", "i", "l", "e" >>

OtherKind(id) == IF heap[id].type = "file" THEN CodeKind ELSE FileKind

Holds(list, anchor) == \E i \in 1..Len(list) : list[i] = anchor

\* C18: where a fragment A of the mapping refers to a fragment B of the
\* mapping, A's calls name B by B's page and name with the kind code, also
\* when B is a file fragment, and B's called-by names A with A's own kind
C18_CallsSayCodeCalledBySaysKind ==
    Woven =>
        \A a \in MappedIds : \A b \in MappedIds :
            RefsTo(a, b) > 0 =>
                /\ Holds(heap[a].calling, AnchorAs(b, CodeKind))
                /\ ~ Holds(heap[a].calling, AnchorAs(b, FileKind))
                /\ Holds(heap[b].called_by, AnchorAs(a, KindText(a)))
                /\ ~ Holds(heap[b].called_by, AnchorAs(a, OtherKind(a)))

\* C18 witness: the file fragment A.p refers to the file fragment y.p
C18_Witness ==
    /\ Woven
    /\ \E a \in MappedIds : \E b \in MappedIds \ { a } :
          /\ heap[a].type = "file" /\ heap[b].type = "file"
          /\ heap[a].content = Marker(heap[b].name)
          /\ heap[a].calling = << AnchorAs(b, CodeKind) >>
          /\ heap[b].called_by = << AnchorAs(a, FileKind) >>

\* m comes before n in the content: an earlier line, or earlier on the line
Before(m, n) == m[1] < n[1] \/ (m[1] = n[1] /\ m[2] < n[2])

RECURSIVE InOrder(_)
\* markers in the order of the content
InOrder(ms) ==
    IF ms = { } THEN << >>
    ELSE LET first == CHOOSE m \in ms : \A n \in ms \ { m } : Before(m, n)
         IN  << first >> \o InOrder(ms \ { first })

\* the name is a key of the combined mapping
Known(nm) == \E b \in MappedIds : heap[b].name = nm

Target(nm) == CHOOSE b \in MappedIds : heap[b].name = nm

\* the markers of a block's content whose names the mapping holds, in order
KnownMarkers(id) == InOrder({ m \in MarkersOf(id) : Known(NameAt(id, m)) })

\* C19: a reference to a name the combined mapping does not hold adds no
\* entry and raises nothing, and the references around it are processed: after
\* one build the calls of every fragment of the mapping are the entries of the
\* markers with known names, one for each in the order of the content, and a
\* fragment's called-by has one entry for each of them that names it
C19_UnknownNamesSkipped ==
    weaves = 1 =>
        /\ error = NoError
        /\ \A a \in MappedIds :
              /\ Len(heap[a].calling) = Len(KnownMarkers(a))
              /\ \A i \in 1..Len(KnownMarkers(a)) :
                    heap[a].calling[i]
                        = AnchorAs(Target(NameAt(a, KnownMarkers(a)[i])), CodeKind)
              /\ Len(heap[a].called_by)
                    = Cardinality({ r \in UNION { { c } \X MarkersOf(c) : c \in MappedIds } :
                                      NameAt(r[1], r[2]) = heap[a].name })

\* C19 witness: the fragment A.p refers to x, a name of no fragment, and then
\* to B; its calls hold the entry for B alone, and B was scanned after it
C19_Witness ==
    /\ weaves = 1
    /\ error = NoError
    /\ \E a \in MappedIds : \E b \in MappedIds \ { a } :
          /\ heap[a].content = Marker(<< "x" >>) \o Marker(NameB)
          /\ ~ Known(<< "x" >>)
          /\ heap[b].name = NameB
          /\ heap[a].calling = << AnchorAs(b, CodeKind) >>
          /\ heap[b].called_by = << OwnAnchor(a) >>
          /\ heap[b].calling_name = OwnAnchor(b)

\* the fragment of the mapping whose anchor the entry is
CallerOf(entry) == CHOOSE a \in MappedIds : OwnAnchor(a) = entry

\* C20 as claimed: the entries of a called-by list are in the order of the
\* callers' blocks, by document and by block within the document
C20_CalledByInBlockOrder ==
    weaves = 1 =>
        \A b \in MappedIds :
            \A i \in 1..Len(heap[b].called_by) : \A j \in i..Len(heap[b].called_by) :
                CallerOf(heap[b].called_by[i]) <= CallerOf(heap[b].called_by[j])

RECURSIVE CallersIn(_, _)
\* the called-by entries for b that the scan of these fragments, in this
\* order, makes
CallersIn(ids, b) ==
    IF ids = << >> THEN << >>
    ELSE [ i \in 1..RefsTo(Head(ids), b) |-> OwnAnchor(Head(ids)) ]
             \o CallersIn(Tail(ids), b)

IsPrefix(s, t) == Len(s) <= Len(t) /\ SubSeq(t, 1, Len(s)) = s

\* C20: the entries of a called-by list are in the order in which the
\* combined mapping holds the callers (the names of the file registry, then
\* the names that only the code registry has), whatever their kind, one for
\* each reference; and a step only ever adds entries at the end of a list
C20_CalledByInMappingOrder ==
    [][ /\ \A id \in 1..Len(heap) :
              heap[id].type \in { "file", "code" } =>
                  /\ IsPrefix(heap[id].called_by, heap'[id].called_by)
                  /\ IsPrefix(heap[id].calling, heap'[id].calling)
        /\ (weaves = 0 /\ weaves' = 1) =>
              \A b \in MappedIds :
                  heap'[b].called_by = CallersIn(DictValues(blocks_dict), b) ]_vars

\* C20 witness: the code fragment B comes before the file fragment A.p in the
\* document and both refer to A; the entry of A.p comes first in its called-by
C20_Witness ==
    /\ weaves = 1
    /\ Len(heap) = 2
    /\ heap[1].type = "code" /\ heap[1].name = NameB
    /\ heap[2].type = "file" /\ heap[2].name = NameA
    /\ heap[1].content = Marker(NameA)
    /\ heap[2].content = Marker(NameA)
    /\ heap[2].called_by = << OwnAnchor(2), OwnAnchor(1) >>

-----------------------------------------------------------------------------
(* Properties of the program as a whole *)

\* the code registry as replace_calls reads it, from these blocks
RegistryOf(h, codes) ==
    [ n \in { codes[i].key : i \in 1..Len(codes) } |-> h[DictGet(codes, n)] ]

\* with these blocks, registries, containers and files written: the file of
\* every registered file fragment that alone has its output path holds the
\* expansion of the fragment's content
TangledFrom(h, files, codes, cs, out) ==
    LET ids == { files[i].value : i \in 1..Len(files) }
        path(id) == DictGet(cs, h[id].container).code_dir \o h[id].location
    IN  \A id \in ids :
            (\A other \in ids \ { id } : path(other) # path(id))
                => DictGet(out, path(id))
                       = ReplaceCalls(h[id].content, RegistryOf(h, codes), 0,
                                      DefaultMaxIndex)

\* C21: once the registries are made, no step (write_code,
\* write_documentation, in any order) changes a fragment's content, name, kind,
\* language, output path or document, nor an entry of a registry; weaving
\* leaves the files written as they are, and the files tangled before or
\* after weaving hold the expansion of the same contents
C21_FragmentsFrozen ==
    [][ Registries =>
            /\ Len(heap') = Len(heap)
            /\ \A id \in FragmentIds : AsParsed(heap'[id]) = AsParsed(heap[id])
            /\ self_file_blocks' = self_file_blocks
            /\ self_code_blocks' = self_code_blocks
            /\ weaves' # weaves => written' = written
            /\ phase' = "tangled" =>
                  TangledFrom(heap', self_file_blocks', self_code_blocks',
                              containers', written') ]_vars

\* C21 witness: the file of A.p was tangled from its two references to B,
\* and the fragment has its cross-references
C21_Witness ==
    /\ phase = "tangled"
    /\ Woven
    /\ \E a \in RegisteredFileIds :
          /\ heap[a].content = Marker(NameB) \o Marker(<< Sp, "B", Sp >>)
          /\ Len(heap[a].calling) = 2
          /\ DictGet(written, OutputPath(a)) = << "x", "x" >>

-----------------------------------------------------------------------------
(* Properties of the scan over the lines *)

\* the scan of the current file is about to read a line
AtLine == phase = "scan" /\ error = NoError /\ line_no <= Len(text_lines)

\* the line begins with the fence and opens no fragment
IsClose(line) == IsFence(line) /\ StartMatch(line) = NoMatch

IsOpen(line) == StartMatch(line) # NoMatch

\* before line i: the last line that begins with the fence, 0 without one
LastFenceBefore(ls, i) ==
    CHOOSE j \in 0..(i - 1) :
        /\ j > 0 => IsFence(ls[j])
        /\ \A k \in (j + 1)..(i - 1) : ~ IsFence(ls[k])

RECURSIVE WithBreaks(_)
\* the lines, each followed by a line break
WithBreaks(ls) ==
    IF ls = << >> THEN << >> ELSE Head(ls) \o << Nl >> \o WithBreaks(Tail(ls))

\* C22: a line that begins with the fence and opens no fragment, read outside
\* a fragment, adds no block and drops the prose accumulated; a prose block is
\* added only at a fragment-open line read outside a fragment, and it holds
\* the lines since the last fence, which then is a closing one
C22_ProseOnlyBeforeOpen ==
    [][ /\ (AtLine /\ block_type = "doc" /\ IsClose(text_lines[line_no])) =>
              /\ error' = NoError
              /\ heap' = heap
              /\ container'.blocks = container.blocks
              /\ content' = << >>
              /\ block_type' = "doc"
        /\ (Len(heap') > Len(heap) /\ heap'[Len(heap')].type = "doc") =>
              /\ AtLine
              /\ IsOpen(text_lines[line_no])
              /\ block_type = "doc"
              /\ LET from == LastFenceBefore(text_lines, line_no)
                     prose == SubSeq(text_lines, from + 1, line_no - 1)
                 IN  /\ from > 0 => IsClose(text_lines[from])
                     /\ prose # << >>
                     /\ content = WithBreaks(prose)
                     /\ \E k \in 1..Len(content) :
                           content = heap'[Len(heap')].content \o Breaks(k) ]_vars

\* C22 witness: the line before the fence is dropped, the line after it is
\* the one prose block of the document
C22_Witness ==
    /\ Parsed
    /\ text_lines = << << "x" >>, << Fence >>, << "x" >>, OpenLine(<< "A" >>) >>
    /\ Len(heap) = 1
    /\ heap[1].type = "doc"
    /\ heap[1].content = << "x" >>
    /\ containers[1].value.blocks = << 1 >>

\* C23: a fragment-open line read inside a fragment ends that fragment: if
\* content was accumulated, a block of the fragment's kind, language and name
\* is added that holds the lines since the fragment's own open line, else no
\* block is added; the scan then is inside the new fragment with no content.
\* (A fragment that cannot be constructed stops the parse instead.)
C23_OpenInsideFragment ==
    [][ (/\ AtLine
         /\ block_type \in { "file", "code" }
         /\ IsOpen(text_lines[line_no])
         /\ error' = NoError) =>
            LET from == LastFenceBefore(text_lines, line_no)
                between == SubSeq(text_lines, from + 1, line_no - 1)
                token == Strip(StartMatch(text_lines[line_no])[2])
            IN  /\ from > 0 /\ IsOpen(text_lines[from])
                /\ content = WithBreaks(between)
                /\ IF between # << >>
                   THEN /\ Len(heap') = Len(heap) + 1
                        /\ container'.blocks = Append(container.blocks, Len(heap'))
                        /\ heap'[Len(heap')].type = block_type
                        /\ heap'[Len(heap')].language = language
                        /\ heap'[Len(heap')].location = name
                        /\ heap'[Len(heap')].name = WithoutExtension(name)
                        /\ \E k \in 1..Len(content) :
                              content = heap'[Len(heap')].content \o Breaks(k)
                   ELSE heap' = heap /\ container'.blocks = container.blocks
                /\ content' = << >>
                /\ name' = token
                /\ language' = Strip(StartMatch(text_lines[line_no])[1])
                /\ block_type' = IF TokenHasExtension(token) THEN "file" ELSE "code" ]_vars

\* C23 witness: the code fragment A ends at the open line of the file
\* fragment A.p, and each holds its own line
C23_Witness ==
    /\ Parsed
    /\ text_lines = << OpenLine(<< "A" >>), << "x" >>, OpenLine(<< "A", ".", "p" >>), << >> >>
    /\ Len(heap) = 2
    /\ heap[1].type = "code" /\ heap[1].location = << "A" >>
    /\ heap[1].content = << "x" >>
    /\ heap[2].type = "file" /\ heap[2].location = << "A", ".", "p" >>
    /\ heap[2].content = << >>

\* ---------------------------------------------------------------------------
\* Properties of the documents parse_files returns
\* ---------------------------------------------------------------------------

\* the name of the document of the f-th input: the base name of its path
\* without the last extension
InputName(f) == RSplitDot(Basename(filenames[f]))

\* the last input of that document name
LastWithName(nm) ==
    CHOOSE f \in Files :
        /\ InputName(f) = nm
        /\ \A g \in Files : InputName(g) = nm => g <= f

\* the document of the f-th input as its own text describes it, without blocks
Described(f) == WithMetadata(NewContainer(filenames[f]), fs_text[filenames[f]])

\* the fragment blocks the registries and the combined mapping hold
RegisteredIds ==
    { self_file_blocks[i].value : i \in 1..Len(self_file_blocks) }
        \cup { self_code_blocks[i].value : i \in 1..Len(self_code_blocks) }

\* C24: parse_files returns one document for every distinct base name without
\* its last extension; the document under a name has the metadata and the
\* blocks of the last input of that name and of no earlier one; and a fragment
\* of any input, looked up by the document name it carries, finds that last
\* input's document: its code directory in the path written, its
\* documentation directory in the page and the anchor (looked at when
\* parse_files has returned, and again when write_code and the first
\* write_documentation are done)
C24_LaterInputSurvives ==
    /\ Parsed => Len(containers) = Cardinality({ InputName(f) : f \in Files })
    /\ Registries => RegisteredIds \subseteq RetainedIds
    /\ phase = "parsed" =>
          /\ \A f \in Files :
                LET s == LastWithName(InputName(f))
                    c == ContainerOf(f)
                IN  /\ DictHas(containers, InputName(f))
                    /\ [ c EXCEPT !.blocks = << >> ] = Described(s)
                    /\ FragmentsOf(c.blocks)
                          = ActualFragments(Split(fs_text[filenames[s]], Nl), 1,
                                            filenames[s])
                    /\ s = Len(filenames) => c = container
          /\ \A id \in FragmentIds :
                /\ \E f \in Files : InputName(f) = heap[id].container
                /\ LET d == Described(LastWithName(heap[id].container))
                   IN  /\ OutputPath(id) = d.code_dir \o heap[id].location
                       /\ PageOf(id) = d.doc_dir \o heap[id].container \o DotHtml
    /\ (phase = "tangled" /\ weaves = 1) =>
          \A id \in RegisteredIds :
              LET d == Described(LastWithName(heap[id].container))
              IN  /\ heap[id].type = "file" =>
                        DictHas(written, d.code_dir \o heap[id].location)
                  /\ id \in MappedIds =>
                        heap[id].calling_name
                            = d.doc_dir \o heap[id].container \o DotHtml
                                 \o << "#" >> \o KindText(id)
                                 \o << ":", ":" >> \o heap[id].name

\* C24 witness: two inputs a.m and a.q; the first names a code directory and
\* the second none; one document is returned, the file fragment of the first
\* input is in no document, and the file fragment of the second input is
\* written without a directory and has its anchor without one
C24_Witness ==
    /\ phase = "tangled"
    /\ weaves = 1
    /\ filenames = << PathA, PathC >>
    /\ Len(containers) = 1
    /\ Described(1).code_dir # << >>
    /\ containers[1].value.code_dir = << >>
    /\ \E a \in FileBlockIds \ RetainedIds :
       \E b \in RegisteredIds :
          /\ heap[b].type = "file"
          /\ heap[a].container = heap[b].container
          /\ DictHas(written, heap[b].location)
          /\ heap[b].calling_name = heap[b].container \o DotHtml \o << "#" >>
                                        \o KindText(b) \o << ":", ":" >> \o heap[b].name

\* ---------------------------------------------------------------------------
\* Properties of repeated builds of the documentation
\* ---------------------------------------------------------------------------

\* the references of the fragments of the mapping that name this fragment
RefsNaming(a) ==
    { r \in UNION { { c } \X MarkersOf(c) : c \in MappedIds } :
        NameAt(r[1], r[2]) = heap[a].name }

\* C25: the calls and called-by lists are never emptied: after k builds on the
\* same object every fragment of the mapping has the anchor one build gives it,
\* and its lists hold k entries for every reference, so that they are k times
\* as long as after one build
C25_ListsGrowWithEveryBuild ==
    Woven =>
        \A a \in MappedIds :
            /\ heap[a].calling_name = OwnAnchor(a)
            /\ Len(heap[a].calling) = weaves * Len(KnownMarkers(a))
            /\ Len(heap[a].called_by) = weaves * Cardinality(RefsNaming(a))
            /\ \A b \in MappedIds :
                  /\ Entries(heap[a].calling, AnchorAs(b, CodeKind))
                        = weaves * RefsTo(a, b)
                  /\ Entries(heap[b].called_by, OwnAnchor(a)) = weaves * RefsTo(a, b)

\* C25 witness: two builds; A.p refers to B twice, and its calls hold four
\* entries for B and B's called-by four entries for A.p
C25_Witness ==
    /\ weaves = 2
    /\ \E a \in MappedIds : \E b \in MappedIds :
          /\ heap[a].content = Marker(NameB) \o Marker(<< Sp, "B", Sp >>)
          /\ heap[b].name = NameB
          /\ Len(heap[a].calling) = 4
          /\ Entries(heap[b].called_by, OwnAnchor(a)) = 4
          /\ Len(heap[b].called_by) = 4

\* ---------------------------------------------------------------------------
\* Properties of the expansion without a pass limit
\* ---------------------------------------------------------------------------

\* replace_calls was called with max_index = -1
Unlimited == max_index = -1

\* the content the call under way (or the call that returned last) was given
Given ==
    IF calls_made = 0 \/ (calls_made = 1 /\ phase = "returned") THEN input
    ELSE first_result

\* the text has a reference marker with the trimmed name m
RefersFrom(text, m) ==
    LET ls == Split(text, Nl)
    IN  \E i \in 1..Len(ls) : \E p \in Markers(ls[i]) :
            Trimmed(MarkerName(ls[i], p)) = m

\* the fragment n is reachable from the text through reference markers
ReachableFrom(text, blocks, n) ==
    /\ n \in DOMAIN blocks
    /\ \/ RefersFrom(text, n)
       \/ \E x \in DOMAIN blocks :
              RefersFrom(text, x) /\ Reaches(blocks, x, n, Cardinality(DOMAIN blocks))

\* the reference graph reachable from the text has a cycle or a self-reference
ReachableCycle(text, blocks) ==
    \E n \in DOMAIN blocks :
        /\ ReachableFrom(text, blocks, n)
        /\ Reaches(blocks, n, n, Cardinality(DOMAIN blocks))

\* what C26 says of a call without a limit: it returns only from an acyclic
\* reachable graph, with no marker left; from an acyclic reachable graph it
\* returns, after no more than this many recursive calls; and with a
\* reachable cycle every pass leaves a marker
UnlimitedAsGraph(most) ==
    Unlimited =>
        /\ phase = "returned" =>
              ~ HasCall(block_text) /\ ~ ReachableCycle(Given, code_blocks)
        /\ ~ ReachableCycle(Given, code_blocks) => index <= most
        /\ (ReachableCycle(Given, code_blocks) /\ passes >= 1) =>
              phase = "expand" /\ HasCall(block_text)

\* C26 as claimed: without a limit replace_calls returns exactly when the
\* reference graph reachable from the content is acyclic, and then its result
\* has no reference marker; with a reachable cycle every pass leaves a marker
\* and it never returns (a call that has not returned after PassCap passes is
\* taken to go on)
C26_ReturnsIffAcyclic == UnlimitedAsGraph(PassCap - 1)

\* C26 restricted to contents in which every "@call{" starts a reference
\* marker with a plain name: then an acyclic reachable graph is expanded
\* with no more recursive calls than there are fragments
C26_WellFormedReturnsIffAcyclic ==
    (/\ WellFormed(Given)
     /\ \A n \in DOMAIN code_blocks : WellFormed(code_blocks[n].content))
    => UnlimitedAsGraph(Cardinality(DOMAIN code_blocks))

====
